---- MODULE Spec2Model ----
(***************************************************************************)
(* The whiteboard canvas (layered Canvas component, src/unnamed/part_001)  *)
(* and the page that owns CanvasData (src/app/board/page.tsx).             *)
(*                                                                         *)
(* Shapes are JavaScript objects: the component's state holds REFERENCES   *)
(* to them, scaleObjects and moveObjects mutate them in place, and the     *)
(* page's handleActiveShapeChange replaces the CanvasData entry by a fresh *)
(* copy.  The model therefore keeps a heap (reference -> fields) and the   *)
(* state variables hold references, so that `includes`, Set.delete and     *)
(* `!==` compare references as the code does.                              *)
(*                                                                         *)
(* One action is one event handler together with the state updates React   *)
(* commits for it: handlers read the state of the last render (their       *)
(* closure), the setState calls of one handler are batched and the last    *)
(* call to a setter wins, and the queued setCanvasData updaters run after  *)
(* the handler has returned.                                               *)
(***************************************************************************)
EXTENDS Integers, Sequences, FiniteSets, TLC

VARIABLES
    heap,                        \* reference -> shape fields (the JS objects)
    canvasData,                  \* page state: canvasData.objects, references
    shapeLayers,                 \* ShapeLayer[]: the shape of each layer
    needsRedraw,                 \* ShapeLayer[]: the needsRedraw of each layer
    selectedObjects,             \* Array<Shape> | null
    hoveringObject,              \* Shape | null
    currentHoveringSelectHandle, \* "TL" | "TR" | "BL" | "BR" | "null"
    rescalingObject,             \* Array<Shape> | null
    movingObject,                \* Array<Shape> | null
    lastMousePosition,           \* {x, y} | null (a ref, not React state)
    drawHandler,                 \* the caches of drawHandler, the closures of
                                 \* its drawImage calls and what they await
    performanceMonitor,          \* the PerformanceMonitor instance
    now,                         \* performance.now()
    events,                      \* number of events handled so far
    last                         \* the last event and what it reported

\* the state of the component and of the page
canvasVars == <<heap, canvasData, shapeLayers, needsRedraw, selectedObjects,
                hoveringObject, currentHoveringSelectHandle, rescalingObject,
                movingObject, lastMousePosition>>

vars == <<canvasVars, drawHandler, performanceMonitor, now, events, last>>

-----------------------------------------------------------------------------
(* Program constants *)

PADDING == 3

MIN_SIZE == 5

handleSize == 10

(* Bounds of the model *)

\* events handled in one behaviour of Spec
MaxEvents == 6

\* pointer-move events handled in one behaviour of SpecScale
MaxFrames == 2

\* clicks and pointer-moves handled in one behaviour of SpecHit
MaxHitEvents == 3

\* events of the specification of the layers
MaxDrawEvents == 4

\* frames of the specification of the throwing sink
MaxSinkFrames == 3

\* events and completions of the specification of the Image shape
MaxGifEvents == 6

\* calls of the specification of the PerformanceMonitor
MaxPerfEvents == 4

\* events of the specification of the pointer device
MaxPointerEvents == 8

\* events of the specification of the click with the modifier key
MaxGestureEvents == 5

\* frames of the specification of the resize of two shapes
MaxMultiFrames == 2

\* calls of the specification of the full buffer of the PerformanceMonitor
MaxBufferEvents == 4

-----------------------------------------------------------------------------
(* null and non-null values: null is <<>>, a value v is <<v>> *)

Null == <<>>

Some(v) == <<v>>

NoHandle == "null"

Handles == {"TL", "TR", "BL", "BR"}

Abs(n) == IF n < 0 THEN -n ELSE n

Min2(a, b) == IF a < b THEN a ELSE b

Max2(a, b) == IF a > b THEN a ELSE b

Range(s) == {s[i] : i \in 1..Len(s)}

SetMin(S) == CHOOSE m \in S : \A n \in S : m <= n

SetMax(S) == CHOOSE m \in S : \A n \in S : m >= n

\* a shape; filled, borderWidth and url are set by the states that draw
Shape(id, type, x, y, width, height, layer) ==
    [id |-> id, type |-> type, x |-> x, y |-> y,
     width |-> width, height |-> height, layer |-> layer,
     filled |-> TRUE, borderWidth |-> 1, url |-> <<>>]

-----------------------------------------------------------------------------
(* Pure functions of the component *)

\* mutant of HitsShape: a circle is hit anywhere inside its bounding box
HitsShapeBox(s, x, y) ==
    /\ x >= s.x
    /\ x <= s.x + s.width
    /\ y >= s.y
    /\ y <= s.y + s.height

\* mutant of HitsShape: the comparisons are strict, the boundary is left out
HitsShapeStrict(s, x, y) ==
    IF s.type = "Circle"
    THEN LET r2 == Min2(s.width, s.height)
             ex == 2 * x - 2 * s.x - s.width
             ey == 2 * y - 2 * s.y - s.height
         IN  r2 >= 0 /\ ex * ex + ey * ey < r2 * r2
    ELSE /\ x > s.x
         /\ x < s.x + s.width
         /\ y > s.y
         /\ y < s.y + s.height

\* does the point (x, y) hit shape s
HitsShape(s, x, y) ==
    IF s.type = "Circle"
    THEN \* distance from the centre <= min(width, height) / 2, doubled to
         \* stay in the integers: centre = (s.x + width/2, s.y + height/2)
         LET r2 == Min2(s.width, s.height)
             ex == 2 * x - 2 * s.x - s.width
             ey == 2 * y - 2 * s.y - s.height
         IN  r2 >= 0 /\ ex * ex + ey * ey <= r2 * r2
    ELSE \* Rectangle and Image
         /\ x >= s.x
         /\ x <= s.x + s.width
         /\ y >= s.y
         /\ y <= s.y + s.height

\* the shapes of CanvasData under (x, y), in CanvasData order
detectObjectHit(h, cd, x, y) ==
    SelectSeq(cd, LAMBDA r : HitsShape(h[r], x, y))

\* drawHandler's bounding box of the targets, used to draw the outline
calculateBoundingBox(h, targets) ==
    IF targets = <<>>
    THEN [topX |-> 0, topY |-> 0, bottomX |-> 0, bottomY |-> 0,
          width |-> 0, height |-> 0]
    ELSE LET topX == SetMin({h[r].x - PADDING : r \in Range(targets)})
             topY == SetMin({h[r].y - PADDING : r \in Range(targets)})
             bottomX == SetMax({h[r].x + h[r].width + PADDING :
                                  r \in Range(targets)})
             bottomY == SetMax({h[r].y + h[r].height + PADDING :
                                  r \in Range(targets)})
         IN  [topX |-> topX, topY |-> topY, bottomX |-> bottomX,
              bottomY |-> bottomY, width |-> bottomX - topX,
              height |-> bottomY - topY]

\* mutant of getSelectedObjectsBoundingBox: the box of the first target only
getSelectedObjectsBoundingBoxFirst(h, targets) ==
    LET t == h[targets[1]]
    IN  [x |-> t.x - PADDING, y |-> t.y - PADDING,
         width |-> t.width + 2 * PADDING, height |-> t.height + 2 * PADDING]

\* bounding box of the targets (a non-empty sequence of references)
getSelectedObjectsBoundingBox(h, targets) ==
    LET minX == SetMin({h[r].x - PADDING : r \in Range(targets)})
        minY == SetMin({h[r].y - PADDING : r \in Range(targets)})
        maxX == SetMax({h[r].x + h[r].width + PADDING : r \in Range(targets)})
        maxY == SetMax({h[r].y + h[r].height + PADDING : r \in Range(targets)})
    IN  [x |-> minX, y |-> minY, width |-> maxX - minX, height |-> maxY - minY]

\* mutant of InHandle: a hit circle of radius handleSize / 2
InHandleCircle(cx, cy, x, y) ==
    4 * ((x - cx) * (x - cx) + (y - cy) * (y - cy)) <= handleSize * handleSize

\* is (x, y) inside the hit square of the handle at (cx, cy); halves doubled
InHandle(cx, cy, x, y) ==
    /\ 2 * x >= 2 * cx - handleSize
    /\ 2 * x <= 2 * cx + handleSize
    /\ 2 * y >= 2 * cy - handleSize
    /\ 2 * y <= 2 * cy + handleSize

\* the value detectSelectionHandleHover gives currentHoveringSelectHandle
detectSelectionHandleHover(h, sel, x, y) ==
    IF sel = Null \/ sel[1] = <<>>
    THEN NoHandle
    ELSE LET b == getSelectedObjectsBoundingBox(h, sel[1])
         IN  IF InHandle(b.x, b.y, x, y) THEN "TL"
             ELSE IF InHandle(b.x + b.width, b.y, x, y) THEN "TR"
             ELSE IF InHandle(b.x, b.y + b.height, x, y) THEN "BL"
             ELSE IF InHandle(b.x + b.width, b.y + b.height, x, y) THEN "BR"
             ELSE NoHandle

-----------------------------------------------------------------------------
(* scaleObjects, for one object of rescalingObject *)

\* the value the setCurrentHoveringSelectHandle calls of one switch case
\* leave: the calls are made in source order and the last one wins
LastSet(flipW, onW, flipH, onH, both, onBoth) ==
    IF both THEN Some(onBoth)
    ELSE IF flipH THEN Some(onH)
    ELSE IF flipW THEN Some(onW)
    ELSE Null

\* case "TL"
caseTL(obj, dx, dy) ==
    LET w0 == obj.width - dx
        h0 == obj.height - dy
        x0 == obj.x + dx
        y0 == obj.y + dy
        w1 == IF w0 <= 0 THEN Abs(w0) ELSE w0
        x1 == IF w0 <= 0 THEN x0 - w1 ELSE x0
        h1 == IF h0 <= 0 THEN Abs(h0) ELSE h0
        y1 == IF h0 <= 0 THEN y0 - h1 ELSE y0
    IN  [width |-> w1, height |-> h1, x |-> x1, y |-> y1,
         set |-> LastSet(w0 <= 0, "TR", h0 <= 0, "BL",
                         w1 <= 0 /\ h1 <= 0, "BR")]

\* case "TR"
caseTR(obj, dx, dy) ==
    LET w0 == obj.width + dx
        h0 == obj.height - dy
        y0 == obj.y + dy
        w1 == IF w0 <= 0 THEN Abs(w0) ELSE w0
        x1 == IF w0 <= 0 THEN obj.x - w1 ELSE obj.x
        h1 == IF h0 <= 0 THEN Abs(h0) ELSE h0
        y1 == IF h0 <= 0 THEN y0 - h1 ELSE y0
    IN  [width |-> w1, height |-> h1, x |-> x1, y |-> y1,
         set |-> LastSet(w0 <= 0, "TL", h0 <= 0, "BR",
                         w1 <= 0 /\ h1 <= 0, "BL")]

\* case "BL"
caseBL(obj, dx, dy) ==
    LET w0 == obj.width - dx
        h0 == obj.height + dy
        x0 == obj.x + dx
        w1 == IF w0 <= 0 THEN Abs(w0) ELSE w0
        x1 == IF w0 <= 0 THEN x0 - w1 ELSE x0
        h1 == IF h0 <= 0 THEN Abs(h0) ELSE h0
        y1 == IF h0 <= 0 THEN obj.y - h1 ELSE obj.y
    IN  [width |-> w1, height |-> h1, x |-> x1, y |-> y1,
         set |-> LastSet(w0 <= 0, "BR", h0 <= 0, "TL",
                         w1 <= 0 /\ h1 <= 0, "TR")]

\* mutant of caseBR: an inverted width leaves x where it was
caseBRKeepsX(obj, dx, dy) ==
    LET w0 == obj.width + dx
        h0 == obj.height + dy
        w1 == IF w0 <= 0 THEN Abs(w0) ELSE w0
        h1 == IF h0 <= 0 THEN Abs(h0) ELSE h0
        y1 == IF h0 <= 0 THEN obj.y - h1 ELSE obj.y
    IN  [width |-> w1, height |-> h1, x |-> obj.x, y |-> y1,
         set |-> LastSet(w0 <= 0, "BL", h0 <= 0, "TR",
                         w1 <= 0 /\ h1 <= 0, "TL")]

\* case "BR"
caseBR(obj, dx, dy) ==
    LET w0 == obj.width + dx
        h0 == obj.height + dy
        w1 == IF w0 <= 0 THEN Abs(w0) ELSE w0
        x1 == IF w0 <= 0 THEN obj.x - w1 ELSE obj.x
        h1 == IF h0 <= 0 THEN Abs(h0) ELSE h0
        y1 == IF h0 <= 0 THEN obj.y - h1 ELSE obj.y
    IN  [width |-> w1, height |-> h1, x |-> x1, y |-> y1,
         set |-> LastSet(w0 <= 0, "BL", h0 <= 0, "TR",
                         w1 <= 0 /\ h1 <= 0, "TL")]

\* mutant of switchHandle: case "TL" runs the body of case "BL"
switchHandleTLasBL(obj, handle, dx, dy) ==
    CASE handle = "TL" -> caseBL(obj, dx, dy)
      [] handle = "TR" -> caseTR(obj, dx, dy)
      [] handle = "BL" -> caseBL(obj, dx, dy)
      [] handle = "BR" -> caseBR(obj, dx, dy)

\* the switch on currentHoveringSelectHandle: new geometry and handle call
switchHandle(obj, handle, dx, dy) ==
    CASE handle = "TL" -> caseTL(obj, dx, dy)
      [] handle = "TR" -> caseTR(obj, dx, dy)
      [] handle = "BL" -> caseBL(obj, dx, dy)
      [] handle = "BR" -> caseBR(obj, dx, dy)

\* mutant of minSize: no minimum size
minSizeNone(n) == n

\* if (n < MIN_SIZE) n = MIN_SIZE
minSize(n) == IF n < MIN_SIZE THEN MIN_SIZE ELSE n

\* mutant of scaleShape: the deltas applied with no normalisation, no floor
scaleShapeNaive(obj, handle, dx, dy) ==
    LET left == handle \in {"TL", "BL"}
        top == handle \in {"TL", "TR"}
    IN  [shape |-> [obj EXCEPT
                      !.width = IF left THEN obj.width - dx ELSE obj.width + dx,
                      !.height = IF top THEN obj.height - dy ELSE obj.height + dy,
                      !.x = IF left THEN obj.x + dx ELSE obj.x,
                      !.y = IF top THEN obj.y + dy ELSE obj.y],
         set |-> Null]

\* one iteration of the forEach: the object's new fields and the handle call
scaleShape(obj, handle, dx, dy) ==
    LET r == switchHandle(obj, handle, dx, dy)
    IN  [shape |-> [obj EXCEPT !.width = minSize(r.width),
                               !.height = minSize(r.height),
                               !.x = r.x,
                               !.y = r.y],
         set |-> r.set]

\* the forEach over rescalingObject from index i: objects mutated in place
RECURSIVE scaleLoop(_, _, _, _, _, _, _)
scaleLoop(h, objs, i, handle, dx, dy, set) ==
    IF i > Len(objs)
    THEN [heap |-> h, set |-> set]
    ELSE LET r == scaleShape(h[objs[i]], handle, dx, dy)
         IN  scaleLoop([h EXCEPT ![objs[i]] = r.shape], objs, i + 1,
                       handle, dx, dy,
                       IF r.set = Null THEN set ELSE r.set)

\* scaleObjects(dx, dy): heap after the mutations, the handle after the
\* setter calls, and the objects passed to callbacks.onShapeChange in order
scaleObjects(h, resc, handle, dx, dy) ==
    IF resc = Null \/ handle = NoHandle
    THEN [heap |-> h, handle |-> handle, reported |-> <<>>]
    ELSE LET r == scaleLoop(h, resc[1], 1, handle, dx, dy, Null)
         IN  [heap |-> r.heap,
              handle |-> IF r.set = Null THEN handle ELSE r.set[1],
              reported |-> resc[1]]

-----------------------------------------------------------------------------
(* moveObjects *)

\* mutant of moveShape: only x is translated
moveShapeXOnly(obj, dx, dy) == [obj EXCEPT !.x = obj.x + dx]

\* obj.x += dx; obj.y += dy
moveShape(obj, dx, dy) == [obj EXCEPT !.x = obj.x + dx, !.y = obj.y + dy]

RECURSIVE moveLoop(_, _, _, _, _)
moveLoop(h, objs, i, dx, dy) ==
    IF i > Len(objs)
    THEN h
    ELSE moveLoop([h EXCEPT ![objs[i]] = moveShape(h[objs[i]], dx, dy)],
                  objs, i + 1, dx, dy)

\* moveObjects(dx, dy) as seen by a handler whose closure holds mov
moveObjects(h, mov, dx, dy) ==
    IF mov = Null
    THEN [heap |-> h, reported |-> <<>>]
    ELSE [heap |-> moveLoop(h, mov[1], 1, dx, dy), reported |-> mov[1]]

-----------------------------------------------------------------------------
(* The page: handleActiveShapeChange merges a reported shape by id *)

\* a reference no object of h has
Fresh(h) ==
    LET free == {n \in 1..(Cardinality(DOMAIN h) + 1) : n \notin DOMAIN h}
    IN  SetMin(free)

\* objects.map(shape => shape.id === updated.id ? {...shape, ...updated}
\* : shape) from index i: a matching entry becomes a new object
RECURSIVE mapObjects(_, _, _, _)
mapObjects(h, cd, i, u) ==
    IF i > Len(cd)
    THEN [heap |-> h, objects |-> cd]
    ELSE IF h[cd[i]].id = h[u].id
         THEN LET n == Fresh(h)
              IN  mapObjects((n :> h[u]) @@ h, [cd EXCEPT ![i] = n], i + 1, u)
         ELSE mapObjects(h, cd, i + 1, u)

\* mutant of handleActiveShapeChange: a shape with an unknown id is appended
handleActiveShapeChangeAppends(h, cd, u) ==
    LET m == mapObjects(h, cd, 1, u)
        n == Fresh(m.heap)
    IN  IF \E i \in 1..Len(cd) : h[cd[i]].id = h[u].id
        THEN m
        ELSE [heap |-> (n :> h[u]) @@ h, objects |-> Append(cd, n)]

\* mutant of handleActiveShapeChange: the copy is made of the shape CanvasData
\* holds, not of the shape passed in
handleActiveShapeChangeCopiesOld(h, cd, u) ==
    LET same == {i \in 1..Len(cd) : h[cd[i]].id = h[u].id}
    IN  IF same = {}
        THEN [heap |-> h, objects |-> cd]
        ELSE mapObjects(h, cd, 1, cd[SetMin(same)])

handleActiveShapeChange(h, cd, u) == mapObjects(h, cd, 1, u)

\* the queued setCanvasData updaters of one handler, run in call order
RECURSIVE runUpdaters(_, _, _, _)
runUpdaters(h, cd, reported, i) ==
    IF i > Len(reported)
    THEN [heap |-> h, objects |-> cd]
    ELSE LET m == handleActiveShapeChange(h, cd, reported[i])
         IN  runUpdaters(m.heap, m.objects, reported, i + 1)

-----------------------------------------------------------------------------
(* Selection toggle of handleCanvasClick *)

\* new Set(array), as the array of its members in insertion order
RECURSIVE SetOf(_)
SetOf(s) ==
    IF s = <<>>
    THEN <<>>
    ELSE LET front == SetOf(SubSeq(s, 1, Len(s) - 1))
             x == s[Len(s)]
         IN  IF x \in Range(front) THEN front ELSE Append(front, x)

\* mutant of someSameId: no object is ever found
someSameIdNever(h, arr, hit) == FALSE

\* does the selection hold an object with the id of hit
someSameId(h, arr, hit) == \E i \in 1..Len(arr) : h[arr[i]].id = h[hit].id

\* mutant of toggleSelection: a selected id is added again, never deleted
toggleSelectionNoDelete(h, prevSelected, hit) ==
    IF prevSelected = Null
    THEN Some(<<hit>>)
    ELSE Some(SetOf(Append(SetOf(prevSelected[1]), hit)))

\* the updater passed to setSelectedObjects when shift is held
toggleSelection(h, prevSelected, hit) ==
    IF prevSelected = Null
    THEN Some(<<hit>>)
    ELSE LET prevSelectedSet == SetOf(prevSelected[1])
         IN  IF someSameId(h, prevSelected[1], hit)
             THEN \* prevSelectedSet.delete(hit): removes that very object
                  Some(SelectSeq(prevSelectedSet, LAMBDA r : r # hit))
             ELSE \* prevSelectedSet.add(hit)
                  Some(SetOf(Append(prevSelectedSet, hit)))

\* mutant of clickSelection: a shift-click on empty space keeps the selection
clickSelectionShiftKeeps(h, cd, prevSelected, x, y, shiftKey) ==
    LET hitObjects == detectObjectHit(h, cd, x, y)
    IN  IF hitObjects = <<>>
        THEN IF shiftKey THEN prevSelected ELSE Null
        ELSE IF ~shiftKey
             THEN Some(<<hitObjects[1]>>)
             ELSE toggleSelection(h, prevSelected, hitObjects[1])

\* the selection handleCanvasClick sets for a click at (x, y)
clickSelection(h, cd, prevSelected, x, y, shiftKey) ==
    LET hitObjects == detectObjectHit(h, cd, x, y)
    IN  IF hitObjects = <<>>
        THEN Null
        ELSE IF ~shiftKey
             THEN Some(<<hitObjects[1]>>)
             ELSE toggleSelection(h, prevSelected, hitObjects[1])

-----------------------------------------------------------------------------
(* drawHandler: what drawing a shape does to a layer's canvas and to the   *)
(* caches of the module                                                    *)

\* a string is the sequence of its characters
Lower(c) ==
    CASE c = "G" -> "g" [] c = "I" -> "i" [] c = "F" -> "f"
      [] c = "A" -> "a" [] c = "B" -> "b" [] OTHER -> c

toLowerCase(str) == [i \in 1..Len(str) |-> Lower(str[i])]

endsWith(str, suffix) ==
    /\ Len(str) >= Len(suffix)
    /\ SubSeq(str, Len(str) - Len(suffix) + 1, Len(str)) = suffix

\* image.url.toLowerCase().endsWith('.gif')
isGif(url) == endsWith(toLowerCase(url), <<".", "g", "i", "f">>)

\* the number of frames parseGIF and decompressFrames find in the file at url
loadGifFrames(url) == IF url # <<>> /\ Lower(url[1]) = "a" THEN 3 ELSE 1

\* drawRectangle: the path, filled if rect.filled, stroked if it has a border
drawRectangle(rect) ==
    <<"beginPath", "roundRect">>
      \o (IF rect.filled THEN <<"fill">> ELSE <<>>)
      \o (IF rect.borderWidth > 0 THEN <<"stroke">> ELSE <<>>)

\* drawCircle: the path, filled if circle.filled, then stroked
drawCircle(circle) ==
    <<"beginPath", "ellipse">>
      \o (IF circle.filled THEN <<"fill">> ELSE <<>>)
      \o <<"stroke">>

\* a map without the key k
Without(f, k) == [q \in DOMAIN f \ {k} |-> f[q]]

\* drawHandler before anything was drawn: imageCache holds the ids with a
\* loaded image, gifFrameNumberCashe the frame index of an id, gifFrameCashe
\* the number of decoded frames of an id, timeoutCache the timeout of an id,
\* gifFrameImgCashe the frame whose bitmap is kept under <<id, index>>,
\* closures the frameIndex variable of each drawImage call still referred
\* to, pending the timeouts, decodes and loads outstanding
NoDraw ==
    [imageCache |-> {}, gifFrameNumberCashe |-> <<>>, gifFrameCashe |-> <<>>,
     timeoutCache |-> <<>>, gifFrameImgCashe |-> <<>>, closures |-> <<>>,
     pending |-> {}]

\* a key no member of the set of keys has
FreshKey(keys) ==
    SetMin({n \in 1..(Cardinality(keys) + 1) : n \notin keys})

\* something the browser will complete later: a timeout, a decode of a GIF,
\* a load of a static image or of a frame bitmap
Schedule(D, kind, id, env, frame, url) ==
    LET key == FreshKey({q.key : q \in D.pending})
    IN  [D EXCEPT !.pending = @ \cup {[key |-> key, kind |-> kind, id |-> id,
                                       env |-> env, frame |-> frame,
                                       url |-> url]}]

\* mutant of clearCachedTimeout: the cache entry goes, the timeout stays
clearCachedTimeoutKeepsTimer(D, id) ==
    IF id \in DOMAIN D.timeoutCache
    THEN [D EXCEPT !.timeoutCache = Without(@, id)]
    ELSE D

\* if (timeoutCache.has(id)) { clearTimeout(timeoutCache.get(id));
\* timeoutCache.delete(id) }
clearCachedTimeout(D, id) ==
    IF id \in DOMAIN D.timeoutCache
    THEN [D EXCEPT
            !.pending = {q \in @ : ~(q.kind = "timeout"
                                       /\ q.key = D.timeoutCache[id])},
            !.timeoutCache = Without(@, id)]
    ELSE D

\* timeoutId = setTimeout(animateGif, delay); timeoutCache.set(id, timeoutId)
setAnimateTimeout(D, id, env) ==
    LET key == FreshKey({q.key : q \in D.pending})
        D1 == Schedule(D, "timeout", id, env, 0, <<>>)
    IN  [D1 EXCEPT !.timeoutCache = (id :> key) @@ @]

\* draw the frame frameIndex of the closure env: from gifFrameImgCashe under
\* image.id + frameIndex, or else by loading a bitmap whose onload stores it
drawFrame(D, id, env) ==
    LET frameIndex == D.closures[env].frameIndex
    IN  IF <<id, frameIndex>> \in DOMAIN D.gifFrameImgCashe
        THEN D
        ELSE Schedule(D, "frameLoad", id, env, frameIndex, <<>>)

\* mutant of nextFrameIndex: the index runs one past the last frame
nextFrameIndexPastEnd(frameIndex, frames) == (frameIndex + 1) % (frames + 1)

\* frameIndex = (frameIndex + 1) % gifData.frames.length
nextFrameIndex(frameIndex, frames) == (frameIndex + 1) % frames

\* drawImage of a GIF once gifData is known: the frame index is taken from
\* gifFrameNumberCashe, the cached timeout is cleared, the current frame is
\* drawn and animateGif is scheduled
startAnimation(D, id, frames) ==
    IF frames = 0
    THEN D
    ELSE LET D1 == IF id \in DOMAIN D.gifFrameNumberCashe
                   THEN D
                   ELSE [D EXCEPT !.gifFrameNumberCashe = (id :> 0) @@ @]
             D2 == clearCachedTimeout(D1, id)
             env == FreshKey(DOMAIN D2.closures)
             D3 == [D2 EXCEPT !.closures =
                        (env :> [id |-> id,
                                 frameIndex |-> D1.gifFrameNumberCashe[id],
                                 frames |-> frames]) @@ @]
         IN  setAnimateTimeout(drawFrame(D3, id, env), id, env)

\* animateGif, run by the timeout q
animateGif(D, q) ==
    LET c == D.closures[q.env]
        D1 == [D EXCEPT !.pending = @ \ {q}]
        D2 == drawFrame(D1, c.id, q.env)
        frameIndex == nextFrameIndex(c.frameIndex, c.frames)
        D3 == [D2 EXCEPT !.closures[q.env].frameIndex = frameIndex,
                         !.gifFrameNumberCashe = (c.id :> frameIndex) @@ @]
    IN  setAnimateTimeout(D3, c.id, q.env)

\* drawImage up to its first await or callback
drawImage(D, image) ==
    IF isGif(image.url)
    THEN IF image.id \in DOMAIN D.gifFrameCashe
         THEN startAnimation(D, image.id, D.gifFrameCashe[image.id])
         ELSE Schedule(D, "decode", image.id, 0, 0, image.url)
    ELSE IF image.id \in D.imageCache
         THEN D
         ELSE Schedule(D, "load", image.id, 0, 0, image.url)

\* the drawing commands drawShape issues on the layer's canvas
drawCommands(D, shape) ==
    <<"clearRect">>
      \o CASE shape.type = "Rectangle" -> drawRectangle(shape)
           [] shape.type = "Circle" -> drawCircle(shape)
           [] shape.type = "Image" ->
                IF \/ ~isGif(shape.url) /\ shape.id \in D.imageCache
                   \/ /\ isGif(shape.url)
                      /\ shape.id \in DOMAIN D.gifFrameNumberCashe
                      /\ <<shape.id, D.gifFrameNumberCashe[shape.id]>>
                           \in DOMAIN D.gifFrameImgCashe
                THEN <<"drawImage">> ELSE <<>>
           [] OTHER -> <<>>

\* mutant of drawShape: the layer stays dirty
drawShapeKeepsDirty(D, shape) ==
    [draw |-> IF shape.type = "Image" THEN drawImage(D, shape) ELSE D,
     commands |-> drawCommands(D, shape),
     needsRedraw |-> TRUE]

\* drawShape(layer): clear the canvas, draw by type, layer.needsRedraw = false
drawShape(D, shape) ==
    [draw |-> IF shape.type = "Image" THEN drawImage(D, shape) ELSE D,
     commands |-> drawCommands(D, shape),
     needsRedraw |-> FALSE]

\* mutant of drawLayers: no layer is drawn
drawLayersNone(h, D, layers, flags, i) ==
    [draw |-> D, painted |-> <<>>, flags |-> flags]

\* shapeLayers.forEach(layer => { if (layer.needsRedraw) drawShape(layer) })
RECURSIVE drawLayers(_, _, _, _, _)
drawLayers(h, D, layers, flags, i) ==
    IF i > Len(layers)
    THEN [draw |-> D, painted |-> <<>>, flags |-> flags]
    ELSE IF flags[i]
         THEN LET d == drawShape(D, h[layers[i]])
                  rest == drawLayers(h, d.draw, layers,
                                     [flags EXCEPT ![i] = d.needsRedraw], i + 1)
              IN  [rest EXCEPT !.painted =
                       <<[shape |-> h[layers[i]], commands |-> d.commands]>>
                         \o @]
         ELSE drawLayers(h, D, layers, flags, i + 1)

\* mutant of forceRedraw: nothing is forced
forceRedrawNone(h, layers, flags, mov, resc) == flags

\* while movingObject or rescalingObject is set, the layers of its shapes
\* are marked dirty
forceRedraw(h, layers, flags, mov, resc) ==
    IF mov # Null \/ resc # Null
    THEN LET affected == IF mov # Null THEN mov[1] ELSE resc[1]
             affectedIds == {h[affected[k]].id : k \in 1..Len(affected)}
         IN  [i \in 1..Len(layers) |->
                 flags[i] \/ h[layers[i]].id \in affectedIds]
    ELSE flags

\* one run of the render effect over the layers and their flags
renderPass(h, D, layers, flags, mov, resc) ==
    IF layers = <<>>
    THEN [ran |-> 0, draw |-> D, painted |-> <<>>, flags |-> flags]
    ELSE LET r == drawLayers(h, D, layers,
                             forceRedraw(h, layers, flags, mov, resc), 1)
         IN  [ran |-> 1, draw |-> r.draw, painted |-> r.painted,
              flags |-> r.flags]

\* the first render pass of a mounted component: every layer is new
Mount(h, layers) ==
    renderPass(h, NoDraw, layers, [i \in 1..Len(layers) |-> TRUE], Null, Null)

\* closures nothing outstanding refers to are gone
Settle(D) ==
    IF D.closures = <<>>
    THEN D
    ELSE [D EXCEPT !.closures =
             [c \in (DOMAIN @ \cap {q.env : q \in D.pending}) |-> @[c]]]

-----------------------------------------------------------------------------
(* The reconcile effect of the component, run when canvasData.objects is a  *)
(* new array                                                               *)

\* mutant of sortByLayer: the objects in the order of CanvasData
sortByLayerNone(h, cd) == cd

\* [...objects].sort((a, b) => a.layer - b.layer): stable, ascending layer
RECURSIVE sortByLayer(_, _)
sortByLayer(h, cd) ==
    IF cd = <<>>
    THEN <<>>
    ELSE LET front == sortByLayer(h, SubSeq(cd, 1, Len(cd) - 1))
             x == cd[Len(cd)]
             keep == SelectSeq(front, LAMBDA r : h[r].layer <= h[x].layer)
             rest == SelectSeq(front, LAMBDA r : h[r].layer > h[x].layer)
         IN  keep \o <<x>> \o rest

\* mutant of layerNeedsRedraw: only a new id makes a layer dirty
layerNeedsRedrawNewOnly(h, layers, shape) ==
    \A k \in 1..Len(layers) : h[layers[k]].id # h[shape].id

\* the needsRedraw of the layer made for shape: true for a new id, else
\* JSON.stringify(existingLayer.shape) !== JSON.stringify(shape)
layerNeedsRedraw(h, layers, shape) ==
    LET existing == {k \in 1..Len(layers) : h[layers[k]].id = h[shape].id}
    IN  IF existing = {}
        THEN TRUE
        ELSE h[layers[SetMin(existing)]] # h[shape]

\* the effect on [canvasData.objects]: the new layers and their flags, and the
\* selection and the hovered shape pruned when a layer's shape is gone from
\* CanvasData
reconcile(h, cd, layers, sel, hov) ==
    LET sortedObjects == sortByLayer(h, cd)
        currentIds == {h[r].id : r \in Range(sortedObjects)}
        removedLayers == SelectSeq(layers, LAMBDA r : h[r].id \notin currentIds)
        newSelection == IF sel = Null THEN <<>>
                        ELSE SelectSeq(sel[1], LAMBDA r : h[r].id \in currentIds)
    IN  [layers |-> sortedObjects,
         flags |-> [i \in 1..Len(sortedObjects) |->
                       layerNeedsRedraw(h, layers, sortedObjects[i])],
         sel |-> IF removedLayers # <<>> /\ sel # Null
                      /\ Len(newSelection) # Len(sel[1])
                 THEN IF newSelection # <<>> THEN Some(newSelection) ELSE Null
                 ELSE sel,
         hov |-> IF removedLayers # <<>> /\ hov # Null
                      /\ h[hov[1]].id \notin currentIds
                 THEN Null
                 ELSE hov]

-----------------------------------------------------------------------------
(* PerformanceMonitor *)

\* private maxEntries = 1000
maxEntries == 1000

\* a monitor as constructed: no entries, not recording
NewMonitor ==
    [entries |-> <<>>, isRecording |-> FALSE, lastFpsTime |-> 0,
     frameCount |-> 0, currentFps |-> 0]

\* Math.round(a / b) for a >= 0 and b > 0
RoundDiv(a, b) == (2 * a + b) \div (2 * b)

\* startRecording() at time t
startRecording(M, t) ==
    [M EXCEPT !.isRecording = TRUE, !.lastFpsTime = t, !.frameCount = 0]

stopRecording(M) == [M EXCEPT !.isRecording = FALSE]

clearEntries(M) == [M EXCEPT !.entries = <<>>]

\* mutant of pushEntry: a new entry replaces the entries recorded before
pushEntryReplaces(entries, entry) == <<entry>>

\* this.entries.push(entry), and shift() past maxEntries
pushEntry(entries, entry) ==
    IF Len(entries) + 1 > maxEntries
    THEN Tail(Append(entries, entry))
    ELSE Append(entries, entry)

\* recordMetrics(renderTime, objectCount) at time t; memory is
\* performance.memory, or Null where the browser has none
recordMetrics(M, t, renderTime, objectCount, memory) ==
    IF ~M.isRecording
    THEN M
    ELSE LET frameCount == M.frameCount + 1
             second == t - M.lastFpsTime >= 1000
             currentFps == IF second
                           THEN RoundDiv(frameCount * 1000, t - M.lastFpsTime)
                           ELSE M.currentFps
             entry == [timestamp |-> t, renderTime |-> renderTime,
                       objectCount |-> objectCount, fps |-> Some(currentFps),
                       memoryUsage |-> memory]
         IN  [M EXCEPT !.frameCount = IF second THEN 0 ELSE frameCount,
                       !.lastFpsTime = IF second THEN t ELSE @,
                       !.currentFps = currentFps,
                       !.entries = pushEntry(@, entry)]

\* a field of the CSV text: a literal, or a number in the given format
Text(text) == [text |-> text, value |-> 0]

Number(format, value) == [text |-> format, value |-> value]

\* number.toFixed(2), as the number of hundredths
toFixed2(num, den) == Number("toFixed(2)", RoundDiv(num * 100, den))

\* entry.fps || 'N/A': an undefined fps and the fps 0 give N/A
fpsField(fps) ==
    IF fps = Null \/ fps[1] = 0 THEN Text("N/A") ELSE Number("number", fps[1])

\* entry.memoryUsage?.size ? (size / (1024 * 1024)).toFixed(2) : 'N/A'
heapField(memoryUsage, size) ==
    IF memoryUsage = Null \/ memoryUsage[1][size] = Null
         \/ memoryUsage[1][size][1] = 0
    THEN Text("N/A")
    ELSE toFixed2(memoryUsage[1][size][1], 1024 * 1024)

headers ==
    <<Text("Timestamp"), Text("Render Time (ms)"), Text("Object Count"),
      Text("FPS"), Text("Total Heap Size (MB)"), Text("Used Heap Size (MB)")>>

\* the row of one entry
row(entry) ==
    <<Number("toISOString", entry.timestamp),
      toFixed2(entry.renderTime, 1),
      Number("number", entry.objectCount),
      fpsField(entry.fps),
      heapField(entry.memoryUsage, "totalJSHeapSize"),
      heapField(entry.memoryUsage, "usedJSHeapSize")>>

\* exportAsCSV(): the lines of the text, each the fields joined by commas
exportAsCSV(M) ==
    IF Len(M.entries) = 0
    THEN << <<Text("No performance data available")>> >>
    ELSE <<headers>> \o [i \in 1..Len(M.entries) |-> row(M.entries[i])]

-----------------------------------------------------------------------------
(* State after an event handler has run and React has committed *)

\* the references a nullable array or a nullable object holds
RefsOf(v) == IF v = Null THEN {} ELSE Range(v[1])

RefOf(v) == IF v = Null THEN {} ELSE {v[1]}

\* the ids held by a nullable array of shapes
IdSet(h, v) == {h[r].id : r \in RefsOf(v)}

\* garbage collection: objects no state variable can reach are dropped
Collect(h, roots) == [r \in (DOMAIN h \cap roots) |-> h[r]]

\* what an event leaves behind for the properties to read: the event, the
\* handle and the selected ids it found, the ids it reported
Event(op, x, y, key, dx, dy, handle, reported) ==
    [op |-> op, x |-> x, y |-> y, key |-> key, dx |-> dx, dy |-> dy,
     handle |-> handle, reported |-> reported,
     before |-> IdSet(heap, selectedObjects),
     \* the objects of rescalingObject as the event found them
     was |-> [r \in RefsOf(rescalingObject) |-> heap[r]],
     \* the shape id a timeout, a decode or a load belongs to
     id |-> 0,
     \* the lines of the exported CSV text
     csv |-> <<>>,
     \* the flags reconcile gave the layers, the render passes that ran and
     \* the layers they painted
     dirty |-> <<>>, passes |-> 0, painted |-> <<>>,
     \* one record for each render pass that ran
     log |-> <<>>]

\* the ids of a sequence of references
Ids(h, refs) == [i \in 1..Len(refs) |-> h[refs[i]].id]

\* drawSelectionOverlay: the overlay is cleared; the hovered shape is
\* outlined unless selectedObjects includes that very object; the selection
\* is outlined
drawSelectionOverlay(h, sel, hov) ==
    [hover |-> IF hov # Null /\ ~(sel # Null /\ hov[1] \in Range(sel[1]))
               THEN Some(h[hov[1]].id) ELSE Null,
     selection |-> IF sel # Null THEN Ids(h, sel[1]) ELSE <<>>]

\* what a render pass over the layers did: the ids of the layers, the ids
\* being moved or resized, the flags after the forced marking, the ids of
\* the layers it drew, the flags it left and the overlay it drew
passLog(h, layers, flags, mov, resc, sel, hov, pass) ==
    IF pass.ran = 0
    THEN <<>>
    ELSE <<[ids |-> Ids(h, layers),
            manipulated |-> IdSet(h, mov) \cup IdSet(h, resc),
            dirty |-> forceRedraw(h, layers, flags, mov, resc),
            painted |-> [k \in 1..Len(pass.painted) |->
                            pass.painted[k].shape.id],
            after |-> pass.flags,
            overlay |-> drawSelectionOverlay(h, sel, hov)]>>

\* commit: h is the heap after the handler's in-place mutations, flagged the
\* ids whose layer the handler marked dirty, newArray whether the handler gave
\* setSelectedObjects a new array, reported the shapes handed to
\* onShapeChange, the rest the new component state
Committed(h, flagged, newArray, reported, sel, hov, handle, resc, mov, lmp, ev) ==
    LET flags0 == [i \in 1..Len(shapeLayers) |->
                      needsRedraw[i] \/ h[shapeLayers[i]].id \in flagged]
        \* every onShapeChange gave canvasData.objects a new array
        changed == reported # <<>>
        \* the render effect depends on these values of the first render
        depends == \/ <<mov, resc, sel, hov>>
                        # <<movingObject, rescalingObject, selectedObjects,
                            hoveringObject>>
                   \/ newArray /\ sel # Null
    IN  \E m \in {runUpdaters(h, canvasData, reported, 1)} :
        \* first render: the reconcile effect runs if canvasData.objects is
        \* a new array
        \E e \in {IF changed
                  THEN reconcile(m.heap, m.objects, shapeLayers, sel, hov)
                  ELSE [layers |-> shapeLayers, flags |-> flags0,
                        sel |-> sel, hov |-> hov]} :
        \* and the render effect runs over the old layers if one of its
        \* dependencies changed
        \E a \in {IF depends
                  THEN renderPass(m.heap, drawHandler, shapeLayers, flags0,
                                  mov, resc)
                  ELSE [ran |-> 0, draw |-> drawHandler, painted |-> <<>>,
                        flags |-> flags0]} :
        \* second render, after setShapeLayers: the render effect runs over
        \* the new layers
        \E b \in {IF changed
                  THEN renderPass(m.heap, a.draw, e.layers, e.flags, mov, resc)
                  ELSE a} :
            /\ heap' = Collect(m.heap,
                               Range(m.objects) \cup RefsOf(e.sel)
                                 \cup RefOf(e.hov) \cup RefsOf(resc)
                                 \cup RefsOf(mov))
            /\ canvasData' = m.objects
            /\ shapeLayers' = e.layers
            /\ needsRedraw' = b.flags
            /\ selectedObjects' = e.sel
            /\ hoveringObject' = e.hov
            /\ currentHoveringSelectHandle' = handle
            /\ rescalingObject' = resc
            /\ movingObject' = mov
            /\ lastMousePosition' = lmp
            /\ drawHandler' = Settle(b.draw)
            /\ events' = events + 1
            /\ last' = [ev EXCEPT
                          !.dirty = IF changed THEN e.flags ELSE <<>>,
                          !.passes = IF changed THEN a.ran + b.ran ELSE a.ran,
                          !.painted = IF changed THEN a.painted \o b.painted
                                      ELSE a.painted,
                          !.log = passLog(m.heap, shapeLayers, flags0, mov,
                                          resc, sel, hov, a)
                                    \o IF changed
                                       THEN passLog(m.heap, e.layers, e.flags,
                                                    mov, resc, e.sel, e.hov, b)
                                       ELSE <<>>]
            /\ UNCHANGED <<performanceMonitor, now>>

\* commit of a handler that marks no layer and makes no new selection array
Commit(h, reported, sel, hov, handle, resc, mov, lmp, ev) ==
    Committed(h, {}, FALSE, reported, sel, hov, handle, resc, mov, lmp, ev)

-----------------------------------------------------------------------------
(* Event handlers of the interaction canvas *)

handleCanvasClick(x, y, shiftKey) ==
    LET sel == clickSelection(heap, canvasData, selectedObjects, x, y, shiftKey)
    IN  Committed(heap, {}, TRUE, <<>>, sel, hoveringObject,
                  currentHoveringSelectHandle, rescalingObject, movingObject,
                  lastMousePosition,
                  Event("click", x, y, shiftKey, 0, 0,
                        currentHoveringSelectHandle, <<>>))

handleCanvasMouseMove(x, y, buttons1) ==
    LET hitObjects == detectObjectHit(heap, canvasData, x, y)
        foundObject == IF hitObjects = <<>> THEN Null ELSE Some(hitObjects[1])
        dx == IF lastMousePosition = Null THEN 0 ELSE x - lastMousePosition[1][1]
        dy == IF lastMousePosition = Null THEN 0 ELSE y - lastMousePosition[1][2]
        ev(reported) == Event("mousemove", x, y, buttons1, dx, dy,
                              currentHoveringSelectHandle, reported)
    IN  IF lastMousePosition = Null
        THEN \* first move: remember the position and return
             Commit(heap, <<>>, selectedObjects, foundObject,
                    currentHoveringSelectHandle, rescalingObject, movingObject,
                    Some(<<x, y>>), ev(<<>>))
        ELSE IF rescalingObject # Null
        THEN LET r == scaleObjects(heap, rescalingObject,
                                   currentHoveringSelectHandle, dx, dy)
             IN  \* scaleObjects marks the layer of every shape it changes
                 Committed(r.heap, Range(Ids(r.heap, r.reported)), FALSE,
                           r.reported, selectedObjects, foundObject,
                           r.handle, rescalingObject, movingObject,
                           Some(<<x, y>>), ev(Ids(r.heap, r.reported)))
        ELSE IF movingObject # Null
        THEN LET r == moveObjects(heap, movingObject, dx, dy)
             IN  Commit(r.heap, r.reported, selectedObjects, foundObject,
                        currentHoveringSelectHandle, rescalingObject,
                        movingObject, Some(<<x, y>>),
                        ev(Ids(r.heap, r.reported)))
        ELSE IF buttons1 /\ foundObject # Null
        THEN \* moveObjects runs with the closure's movingObject, still null
             LET r == moveObjects(heap, movingObject, dx, dy)
             IN  Committed(r.heap, {}, TRUE, r.reported,
                           Some(<<foundObject[1]>>), foundObject,
                           currentHoveringSelectHandle, rescalingObject,
                           Some(<<foundObject[1]>>), Some(<<x, y>>),
                           ev(Ids(r.heap, r.reported)))
        ELSE Commit(heap, <<>>, selectedObjects, foundObject,
                    detectSelectionHandleHover(heap, selectedObjects, x, y),
                    rescalingObject, movingObject, Some(<<x, y>>), ev(<<>>))

handleCanvasMouseDown(x, y) ==
    LET hitObjects == detectObjectHit(heap, canvasData, x, y)
        ev == Event("mousedown", x, y, FALSE, 0, 0,
                    currentHoveringSelectHandle, <<>>)
    IN  IF currentHoveringSelectHandle # NoHandle /\ selectedObjects # Null
        THEN Commit(heap, <<>>, selectedObjects, hoveringObject,
                    currentHoveringSelectHandle, selectedObjects, movingObject,
                    lastMousePosition, ev)
        ELSE IF hitObjects = <<>>
        THEN Commit(heap, <<>>, selectedObjects, hoveringObject,
                    currentHoveringSelectHandle, rescalingObject, movingObject,
                    lastMousePosition, ev)
        ELSE IF /\ selectedObjects # Null
                /\ someSameId(heap, selectedObjects[1], hitObjects[1])
        THEN Commit(heap, <<>>, selectedObjects, hoveringObject,
                    currentHoveringSelectHandle, rescalingObject,
                    selectedObjects, lastMousePosition, ev)
        ELSE Committed(heap, {}, TRUE, <<>>, Some(<<hitObjects[1]>>),
                       hoveringObject, currentHoveringSelectHandle,
                       rescalingObject, Some(<<hitObjects[1]>>),
                       lastMousePosition, ev)

\* mutant of handleCanvasMouseUp: the selection is left as it is
handleCanvasMouseUpKeepsSelection ==
    Commit(heap, <<>>, selectedObjects, hoveringObject,
           currentHoveringSelectHandle, Null, Null, lastMousePosition,
           Event("mouseup", 0, 0, FALSE, 0, 0,
                 currentHoveringSelectHandle, <<>>))

handleCanvasMouseUp ==
    LET sel == IF movingObject # Null THEN movingObject
               ELSE IF rescalingObject # Null THEN rescalingObject
               ELSE selectedObjects
    IN  Commit(heap, <<>>, sel, hoveringObject, currentHoveringSelectHandle,
               Null, Null, lastMousePosition,
               Event("mouseup", 0, 0, FALSE, 0, 0,
                     currentHoveringSelectHandle, <<>>))

-----------------------------------------------------------------------------
(* The page's "Clear Canvas" button *)

\* setCanvasData({ objects: [] }), then the component's reconcile effect
clearShapes ==
    LET e == reconcile(heap, <<>>, shapeLayers, selectedObjects, hoveringObject)
        roots == RefsOf(e.sel) \cup RefOf(e.hov)
                   \cup RefsOf(rescalingObject) \cup RefsOf(movingObject)
        \* the render effect runs over the new layers, of which there are none
        b == renderPass(heap, drawHandler, e.layers, e.flags, movingObject,
                        rescalingObject)
    IN  /\ heap' = Collect(heap, roots)
        /\ canvasData' = <<>>
        /\ shapeLayers' = e.layers
        /\ needsRedraw' = b.flags
        /\ selectedObjects' = e.sel
        /\ hoveringObject' = e.hov
        /\ drawHandler' = Settle(b.draw)
        /\ events' = events + 1
        /\ last' = [Event("clear", 0, 0, FALSE, 0, 0,
                          currentHoveringSelectHandle, <<>>)
                      EXCEPT !.dirty = e.flags, !.passes = b.ran,
                             !.painted = b.painted,
                             !.log = passLog(heap, e.layers, e.flags,
                                             movingObject, rescalingObject,
                                             e.sel, e.hov, b)]
        /\ UNCHANGED <<currentHoveringSelectHandle, rescalingObject,
                       movingObject, lastMousePosition, performanceMonitor,
                       now>>

-----------------------------------------------------------------------------
(* The page's "Add Shapes" button *)

\* crypto.randomUUID(): the k-th id made by this event, an id no shape had
randomUUID(k) == 2 * events + 2 + k

\* generateCanvasData({numRectangles, numCircles}): layers count from 0 in
\* each kind, borderWidth is between 1 and 4, filled is random
generateCanvasData(numRectangles, numCircles, filled, borderWidth) ==
    [i \in 1..(numRectangles + numCircles) |->
        IF i <= numRectangles
        THEN [Shape(randomUUID(i), "Rectangle", 40, 40, 20, 20, i - 1)
                EXCEPT !.filled = filled, !.borderWidth = borderWidth]
        ELSE [Shape(randomUUID(i), "Circle", 50, 50, 20, 20,
                    i - numRectangles - 1)
                EXCEPT !.filled = filled, !.borderWidth = borderWidth]]

\* objects.push of each new object onto the heap from index i
RECURSIVE allocate(_, _, _)
allocate(h, objects, i) ==
    IF i > Len(objects)
    THEN [heap |-> h, refs |-> <<>>]
    ELSE LET n == Fresh(h)
             rest == allocate((n :> objects[i]) @@ h, objects, i + 1)
         IN  [rest EXCEPT !.refs = <<n>> \o @]

\* addMoreShapes(count): setCanvasData(prev => [...prev.objects, ...new]),
\* then the component's reconcile effect and its render effect
addMoreShapes(count, filled, borderWidth) ==
    \E n \in {allocate(heap,
                       generateCanvasData(count \div 2, count - count \div 2,
                                          filled, borderWidth), 1)} :
    \E e \in {reconcile(n.heap, canvasData \o n.refs, shapeLayers,
                        selectedObjects, hoveringObject)} :
    \E b \in {renderPass(n.heap, drawHandler, e.layers, e.flags,
                         movingObject, rescalingObject)} :
        /\ heap' = n.heap
        /\ canvasData' = canvasData \o n.refs
        /\ shapeLayers' = e.layers
        /\ needsRedraw' = b.flags
        /\ selectedObjects' = e.sel
        /\ hoveringObject' = e.hov
        /\ drawHandler' = Settle(b.draw)
        /\ events' = events + 1
        /\ last' = [Event("add", 0, 0, FALSE, 0, 0,
                          currentHoveringSelectHandle, <<>>)
                      EXCEPT !.dirty = e.flags, !.passes = b.ran,
                             !.painted = b.painted,
                             !.log = passLog(n.heap, e.layers, e.flags,
                                             movingObject, rescalingObject,
                                             e.sel, e.hov, b)]
        /\ UNCHANGED <<currentHoveringSelectHandle, rescalingObject,
                       movingObject, lastMousePosition, performanceMonitor,
                       now>>

-----------------------------------------------------------------------------
(* A pointer-move whose onShapeChange throws *)

\* the first element of a nullable array, as a nullable array
FirstOf(v) == IF v = Null \/ v[1] = <<>> THEN v ELSE Some(<<v[1][1]>>)

\* handleCanvasMouseMove when callbacks.onShapeChange throws: the forEach of
\* scaleObjects or moveObjects ends at the first call, nothing reaches the
\* page; the state set before the call stays set
handleCanvasMouseMoveSinkThrows(x, y, buttons1) ==
    LET hitObjects == detectObjectHit(heap, canvasData, x, y)
        foundObject == IF hitObjects = <<>> THEN Null ELSE Some(hitObjects[1])
        dx == IF lastMousePosition = Null THEN 0 ELSE x - lastMousePosition[1][1]
        dy == IF lastMousePosition = Null THEN 0 ELSE y - lastMousePosition[1][2]
        ev == Event("mousemove", x, y, buttons1, dx, dy,
                    currentHoveringSelectHandle, <<>>)
    IN  IF lastMousePosition # Null /\ rescalingObject # Null
        THEN LET r == scaleObjects(heap, FirstOf(rescalingObject),
                                   currentHoveringSelectHandle, dx, dy)
             IN  Committed(r.heap, Range(Ids(r.heap, r.reported)), FALSE,
                           <<>>, selectedObjects, foundObject, r.handle,
                           rescalingObject, movingObject, Some(<<x, y>>), ev)
        ELSE IF lastMousePosition # Null /\ movingObject # Null
        THEN LET r == moveObjects(heap, FirstOf(movingObject), dx, dy)
             IN  Commit(r.heap, <<>>, selectedObjects, foundObject,
                        currentHoveringSelectHandle, rescalingObject,
                        movingObject, Some(<<x, y>>), ev)
        ELSE \* onShapeChange is not called
             handleCanvasMouseMove(x, y, buttons1)

-----------------------------------------------------------------------------
(* What the browser completes later: decodes, loads and timeouts *)

\* the completion of q leaves the caches as D; the component is not touched
Completed(op, q, D) ==
    /\ drawHandler' = Settle(D)
    /\ events' = events + 1
    /\ last' = [Event(op, 0, 0, FALSE, 0, 0, currentHoveringSelectHandle, <<>>)
                  EXCEPT !.id = q.id]
    /\ UNCHANGED <<canvasVars, performanceMonitor, now>>

\* loadGifFrames resolves: drawImage goes on after its await
decodeResolves(q) ==
    /\ q \in drawHandler.pending
    /\ q.kind = "decode"
    /\ LET frames == loadGifFrames(q.url)
           D == [drawHandler EXCEPT
                   !.pending = @ \ {q},
                   !.gifFrameCashe = (q.id :> frames) @@ @,
                   !.imageCache = @ \cup {q.id}]
       IN  Completed("decoded", q, startAnimation(D, q.id, frames))

\* loadGifFrames rejects: the drawImage call ends
decodeRejects(q) ==
    /\ q \in drawHandler.pending
    /\ q.kind = "decode"
    /\ Completed("failed", q, [drawHandler EXCEPT !.pending = @ \ {q}])

\* img.onload of a static image
imageLoads(q) ==
    /\ q \in drawHandler.pending
    /\ q.kind = "load"
    /\ Completed("loaded", q,
                 [drawHandler EXCEPT !.pending = @ \ {q},
                                     !.imageCache = @ \cup {q.id}])

\* img.onload of a frame bitmap: it is stored under image.id + frameIndex
\* with the frameIndex the closure has now
frameLoads(q) ==
    /\ q \in drawHandler.pending
    /\ q.kind = "frameLoad"
    /\ LET frameIndex == drawHandler.closures[q.env].frameIndex
       IN  Completed("frame", q,
                     [drawHandler EXCEPT
                        !.pending = @ \ {q},
                        !.gifFrameImgCashe =
                            (<<q.id, frameIndex>> :> q.frame) @@ @])

\* a timeout set by drawImage or by animateGif fires
timeoutFires(q) ==
    /\ q \in drawHandler.pending
    /\ q.kind = "timeout"
    /\ Completed("timeout", q, animateGif(drawHandler, q))

-----------------------------------------------------------------------------
(* The calls the component makes on the PerformanceMonitor *)

\* a call op at time t that leaves the monitor as M
Monitored(op, t, M) ==
    /\ performanceMonitor' = M
    /\ now' = t
    /\ events' = events + 1
    /\ last' = [Event(op, 0, 0, FALSE, 0, 0, currentHoveringSelectHandle, <<>>)
                  EXCEPT !.csv = IF op = "export" THEN exportAsCSV(M)
                                 ELSE <<>>]
    /\ UNCHANGED <<canvasVars, drawHandler>>

\* showPerformanceMetrics becomes true
showMetrics(dt) ==
    /\ ~performanceMonitor.isRecording
    /\ Monitored("start", now + dt, startRecording(performanceMonitor, now + dt))

\* showPerformanceMetrics becomes false
hideMetrics ==
    /\ performanceMonitor.isRecording
    /\ Monitored("stop", now, stopRecording(performanceMonitor))

\* the render effect records a pass
recordPass(dt, renderTime, objectCount, memory) ==
    Monitored("record", now + dt,
              recordMetrics(performanceMonitor, now + dt, renderTime,
                            objectCount, memory))

\* the Export CSV button, shown while showPerformanceMetrics is true
exportPerformanceData ==
    /\ performanceMonitor.isRecording
    /\ Monitored("export", now, performanceMonitor)

-----------------------------------------------------------------------------
(* The controller under arbitrary pointer events *)

\* pointer positions the events are drawn from
Points == {<<5, 5>>, <<15, 15>>, <<25, 25>>, <<35, 35>>, <<45, 15>>}

\* the shapes the page starts with: a rectangle and a circle that overlap
InitObjects ==
    (1 :> Shape(1, "Rectangle", 10, 10, 20, 20, 0))
      @@ (2 :> Shape(2, "Circle", 20, 20, 20, 20, 1))

Init ==
    /\ heap = InitObjects
    /\ canvasData = <<1, 2>>
    /\ shapeLayers = sortByLayer(heap, canvasData)
    /\ needsRedraw = Mount(heap, shapeLayers).flags
    /\ drawHandler = Mount(heap, shapeLayers).draw
    /\ performanceMonitor = NewMonitor
    /\ now = 0
    /\ selectedObjects = Null
    /\ hoveringObject = Null
    /\ currentHoveringSelectHandle = NoHandle
    /\ rescalingObject = Null
    /\ movingObject = Null
    /\ lastMousePosition = Null
    /\ events = 0
    /\ last = Event("init", 0, 0, FALSE, 0, 0, NoHandle, <<>>)

Next ==
    /\ events < MaxEvents
    /\ \/ \E p \in Points, shiftKey \in BOOLEAN :
            handleCanvasClick(p[1], p[2], shiftKey)
       \/ \E p \in Points, buttons1 \in BOOLEAN :
            handleCanvasMouseMove(p[1], p[2], buttons1)
       \/ \E p \in Points : handleCanvasMouseDown(p[1], p[2])
       \/ handleCanvasMouseUp
       \/ clearShapes

Spec == Init /\ [][Next]_vars

-----------------------------------------------------------------------------
(* scaleObjects on its own: a resize in progress, driven by pointer moves *)

\* widths and heights of the shape being resized
ScaleWidths == {8, 12}

ScaleHeights == {8, 12}

\* pointer positions of the resize frames
ScalePoints == {<<x, y>> : x \in {11, 16, 20, 24, 29}, y \in {7, 16, 20, 29}}

\* pointer positions the resize starts from
ScaleStarts == {<<16, 20>>, <<20, 20>>, <<24, 20>>}

\* the state after mouse-down on a handle of the selected shape
InitScale ==
    \E w \in ScaleWidths, hgt \in ScaleHeights, hd \in Handles,
       p \in ScaleStarts :
        /\ heap = (1 :> Shape(1, "Rectangle", 20, 20, w, hgt, 0))
        /\ canvasData = <<1>>
        /\ shapeLayers = <<1>>
        /\ needsRedraw = Mount(heap, shapeLayers).flags
        /\ drawHandler = Mount(heap, shapeLayers).draw
        /\ performanceMonitor = NewMonitor
        /\ now = 0
        /\ selectedObjects = Some(<<1>>)
        /\ hoveringObject = Null
        /\ currentHoveringSelectHandle = hd
        /\ rescalingObject = Some(<<1>>)
        /\ movingObject = Null
        /\ lastMousePosition = Some(p)
        /\ events = 0
        /\ last = Event("init", 0, 0, FALSE, 0, 0, NoHandle, <<>>)

NextScale ==
    /\ events < MaxFrames
    /\ \E p \in ScalePoints : handleCanvasMouseMove(p[1], p[2], FALSE)

SpecScale == InitScale /\ [][NextScale]_vars

-----------------------------------------------------------------------------
(* The hit tests on their own: shapes of every kind, clicked and hovered *)

Kinds == {"Rectangle", "Circle", "Image"}

\* widths and heights of the first shape
HitWidths == {0, 5, 8}

HitHeights == {0, 5, 8}

\* layers of the second shape, below and above the first shape's layer 1
HitLayers == {0, 2}

\* pointer positions of the clicks and pointer-moves
HitPoints == {<<3, 3>>, <<10, 10>>, <<13, 13>>, <<14, 14>>, <<16, 13>>,
              <<16, 16>>, <<24, 7>>, <<25, 25>>}

\* the state after mount and a first pointer-move over empty space at the
\* origin: two overlapping shapes, in either order inside CanvasData
InitHit ==
    \E kind \in Kinds, w \in HitWidths, hgt \in HitHeights,
       layer \in HitLayers, order \in {<<1, 2>>, <<2, 1>>} :
        /\ heap = (1 :> Shape(1, kind, 10, 10, w, hgt, 1))
                    @@ (2 :> Shape(2, "Rectangle", 13, 13, 8, 8, layer))
        /\ canvasData = order
        /\ shapeLayers = sortByLayer(heap, canvasData)
        /\ needsRedraw = Mount(heap, shapeLayers).flags
        /\ drawHandler = Mount(heap, shapeLayers).draw
        /\ performanceMonitor = NewMonitor
        /\ now = 0
        /\ selectedObjects = Null
        /\ hoveringObject = Null
        /\ currentHoveringSelectHandle = NoHandle
        /\ rescalingObject = Null
        /\ movingObject = Null
        /\ lastMousePosition = Some(<<0, 0>>)
        /\ events = 0
        /\ last = Event("init", 0, 0, FALSE, 0, 0, NoHandle, <<>>)

NextHit ==
    /\ events < MaxHitEvents
    /\ \/ \E p \in HitPoints, shiftKey \in BOOLEAN :
            handleCanvasClick(p[1], p[2], shiftKey)
       \/ \E p \in HitPoints : handleCanvasMouseMove(p[1], p[2], FALSE)

SpecHit == InitHit /\ [][NextHit]_vars

-----------------------------------------------------------------------------
(* The layers and their painting: shapes given by the collaborator, moved,  *)
(* added to and cleared                                                     *)

\* border widths of the shapes the component is mounted with
DrawBorders == {0, 2}

\* pointer positions: on the rectangle, on both shapes, on empty space
DrawPoints == {<<15, 15>>, <<25, 25>>, <<35, 5>>}

\* how many shapes the page adds at once
AddCounts == {1, 2}

\* the state after mount with a rectangle and a circle that overlap, and a
\* first pointer-move over the rectangle
InitDraw ==
    \E f1 \in BOOLEAN, f2 \in BOOLEAN, b1 \in DrawBorders, b2 \in DrawBorders :
        /\ heap = (1 :> [Shape(1, "Rectangle", 10, 10, 20, 20, 0)
                          EXCEPT !.filled = f1, !.borderWidth = b1])
                    @@ (2 :> [Shape(2, "Circle", 20, 20, 20, 20, 1)
                               EXCEPT !.filled = f2, !.borderWidth = b2])
        /\ canvasData = <<1, 2>>
        /\ shapeLayers = sortByLayer(heap, canvasData)
        /\ needsRedraw = Mount(heap, shapeLayers).flags
        /\ drawHandler = Mount(heap, shapeLayers).draw
        /\ performanceMonitor = NewMonitor
        /\ now = 0
        /\ selectedObjects = Null
        /\ hoveringObject = Some(1)
        /\ currentHoveringSelectHandle = NoHandle
        /\ rescalingObject = Null
        /\ movingObject = Null
        /\ lastMousePosition = Some(<<15, 15>>)
        /\ events = 0
        /\ last = Event("init", 0, 0, FALSE, 0, 0, NoHandle, <<>>)

NextDraw ==
    /\ events < MaxDrawEvents
    /\ \/ \E p \in DrawPoints : handleCanvasMouseMove(p[1], p[2], FALSE)
       \/ \E p \in DrawPoints : handleCanvasMouseDown(p[1], p[2])
       \/ handleCanvasMouseUp
       \/ \E count \in AddCounts, filled \in BOOLEAN :
            addMoreShapes(count, filled, 1)
       \/ clearShapes

SpecDraw == InitDraw /\ [][NextDraw]_vars

-----------------------------------------------------------------------------
(* Manipulation frames whose onShapeChange throws: two shapes are being     *)
(* moved or resized                                                        *)

\* pointer positions of the frames
SinkPoints == {<<12, 12>>, <<20, 20>>, <<26, 18>>, <<40, 40>>}

\* the state after a pointer-down that began a move or a resize of the
\* selection of both shapes
InitSink ==
    \E hd \in Handles \cup {NoHandle}, order \in {<<1, 2>>, <<2, 1>>} :
        /\ heap = InitObjects
        /\ canvasData = <<1, 2>>
        /\ shapeLayers = sortByLayer(heap, canvasData)
        /\ needsRedraw = Mount(heap, shapeLayers).flags
        /\ drawHandler = Mount(heap, shapeLayers).draw
        /\ performanceMonitor = NewMonitor
        /\ now = 0
        /\ selectedObjects = Some(order)
        /\ hoveringObject = Some(2)
        /\ currentHoveringSelectHandle = hd
        /\ rescalingObject = IF hd = NoHandle THEN Null ELSE Some(order)
        /\ movingObject = IF hd = NoHandle THEN Some(order) ELSE Null
        /\ lastMousePosition = Some(<<25, 25>>)
        /\ events = 0
        /\ last = Event("init", 0, 0, FALSE, 0, 0, NoHandle, <<>>)

NextSink ==
    /\ events < MaxSinkFrames
    /\ \E p \in SinkPoints : handleCanvasMouseMoveSinkThrows(p[1], p[2], FALSE)

SpecSink == InitSink /\ [][NextSink]_vars

-----------------------------------------------------------------------------
(* The events in the order a pointer device gives them: the button goes    *)
(* down and up where the last pointer-move left the pointer, and a click   *)
(* follows a pointer-up at once, at the same point; the shapes change only *)
(* through the handlers                                                    *)

NextPointer ==
    /\ events < MaxPointerEvents
    /\ \/ \E p \in Points, buttons1 \in BOOLEAN :
            handleCanvasMouseMove(p[1], p[2], buttons1)
       \/ /\ lastMousePosition # Null
          /\ handleCanvasMouseDown(lastMousePosition[1][1],
                                   lastMousePosition[1][2])
       \/ handleCanvasMouseUp
       \/ /\ last.op = "mouseup"
          /\ lastMousePosition # Null
          /\ \E shiftKey \in BOOLEAN :
                handleCanvasClick(lastMousePosition[1][1],
                                  lastMousePosition[1][2], shiftKey)

SpecPointer == Init /\ [][NextPointer]_vars

-----------------------------------------------------------------------------
(* The click with the modifier key as the pointer device gives it: a       *)
(* pointer-down, a pointer-up and a click with shiftKey at the point of    *)
(* the last pointer-move, begun over a shape that is not in the selection  *)
(* while the selection is not empty                                        *)

\* pointer positions: on the rectangle, on the circle, on neither
GesturePoints == {<<5, 5>>, <<15, 15>>, <<15, 25>>, <<35, 35>>, <<38, 25>>}

\* the state after one of the two shapes was selected by a click at p
InitGesture ==
    \E p \in {<<15, 25>>, <<38, 25>>} :
        LET hit == detectObjectHit(InitObjects, <<1, 2>>, p[1], p[2])
        IN  /\ heap = InitObjects
            /\ canvasData = <<1, 2>>
            /\ shapeLayers = sortByLayer(heap, canvasData)
            /\ needsRedraw = Mount(heap, shapeLayers).flags
            /\ drawHandler = Mount(heap, shapeLayers).draw
            /\ performanceMonitor = NewMonitor
            /\ now = 0
            /\ selectedObjects = Some(<<hit[1]>>)
            /\ hoveringObject = Some(hit[1])
            /\ currentHoveringSelectHandle = NoHandle
            /\ rescalingObject = Null
            /\ movingObject = Null
            /\ lastMousePosition = Some(p)
            /\ events = 0
            /\ last = Event("init", 0, 0, FALSE, 0, 0, NoHandle, <<>>)

\* the pointer is over a shape whose id is not in the selection, and the
\* selection is not empty
OverUnselectedShape ==
    LET hit == detectObjectHit(heap, canvasData, lastMousePosition[1][1],
                               lastMousePosition[1][2])
    IN  /\ selectedObjects # Null
        /\ selectedObjects[1] # <<>>
        /\ hit # <<>>
        /\ heap[hit[1]].id \notin IdSet(heap, selectedObjects)

NextGesture ==
    /\ events < MaxGestureEvents
    /\ \/ /\ last.op \in {"init", "mousemove", "click"}
          /\ \E p \in GesturePoints :
                handleCanvasMouseMove(p[1], p[2], FALSE)
       \/ /\ last.op \in {"init", "mousemove", "click"}
          /\ OverUnselectedShape
          /\ handleCanvasMouseDown(lastMousePosition[1][1],
                                   lastMousePosition[1][2])
       \/ /\ last.op = "mousedown"
          /\ handleCanvasMouseUp
       \/ /\ last.op = "mouseup"
          /\ handleCanvasClick(lastMousePosition[1][1],
                               lastMousePosition[1][2], TRUE)

SpecGesture == InitGesture /\ [][NextGesture]_vars

-----------------------------------------------------------------------------
(* scaleObjects over two shapes of different sizes: a resize of the        *)
(* selection of both in progress, driven by pointer moves                  *)

\* the shapes: a rectangle and a smaller circle inside its bounding box
MultiObjects ==
    (1 :> Shape(1, "Rectangle", 10, 10, 20, 20, 0))
      @@ (2 :> Shape(2, "Circle", 20, 20, 8, 8, 1))

\* pointer positions the resize starts from: the corners of the padded box
MultiStarts == {<<7, 7>>, <<33, 7>>, <<7, 33>>, <<33, 33>>}

\* pointer positions of the resize frames
MultiPoints == {<<x, y>> : x \in {7, 19, 33, 45}, y \in {7, 33}}

\* the state after a pointer-down on a handle of the selection of both shapes
InitMulti ==
    \E p \in MultiStarts, order \in {<<1, 2>>, <<2, 1>>} :
        /\ heap = MultiObjects
        /\ canvasData = <<1, 2>>
        /\ shapeLayers = sortByLayer(heap, canvasData)
        /\ needsRedraw = Mount(heap, shapeLayers).flags
        /\ drawHandler = Mount(heap, shapeLayers).draw
        /\ performanceMonitor = NewMonitor
        /\ now = 0
        /\ selectedObjects = Some(order)
        /\ hoveringObject = Null
        /\ currentHoveringSelectHandle =
              detectSelectionHandleHover(heap, selectedObjects, p[1], p[2])
        /\ rescalingObject = Some(order)
        /\ movingObject = Null
        /\ lastMousePosition = Some(p)
        /\ events = 0
        /\ last = Event("init", 0, 0, FALSE, 0, 0, NoHandle, <<>>)

NextMulti ==
    /\ events < MaxMultiFrames
    /\ \E p \in MultiPoints : handleCanvasMouseMove(p[1], p[2], FALSE)

SpecMulti == InitMulti /\ [][NextMulti]_vars

-----------------------------------------------------------------------------
(* An Image shape: redraws, decodes, loads and timeouts in any order        *)

\* the url of the image: a GIF of three frames, a GIF of one frame, a PNG
ImageUrls ==
    {<<"a", ".", "g", "i", "f">>, <<"b", ".", "G", "I", "F">>,
     <<"c", ".", "p", "n", "g">>}

\* pointer positions, both on the image
GifPoints == {<<15, 15>>, <<17, 15>>}

\* the state after mount with one Image shape and a first pointer-move over
\* it: the first render pass has called drawImage
InitGif ==
    \E url \in ImageUrls :
        /\ heap = (1 :> [Shape(1, "Image", 10, 10, 20, 20, 0)
                          EXCEPT !.url = url])
        /\ canvasData = <<1>>
        /\ shapeLayers = <<1>>
        /\ needsRedraw = Mount(heap, shapeLayers).flags
        /\ drawHandler = Mount(heap, shapeLayers).draw
        /\ performanceMonitor = NewMonitor
        /\ now = 0
        /\ selectedObjects = Null
        /\ hoveringObject = Some(1)
        /\ currentHoveringSelectHandle = NoHandle
        /\ rescalingObject = Null
        /\ movingObject = Null
        /\ lastMousePosition = Some(<<15, 15>>)
        /\ events = 0
        /\ last = Event("init", 0, 0, FALSE, 0, 0, NoHandle, <<>>)

NextGif ==
    /\ events < MaxGifEvents
    /\ \/ \E p \in GifPoints : handleCanvasMouseDown(p[1], p[2])
       \/ \E p \in GifPoints : handleCanvasMouseMove(p[1], p[2], FALSE)
       \/ handleCanvasMouseUp
       \/ clearShapes
       \/ \E q \in drawHandler.pending : decodeResolves(q)
       \/ \E q \in drawHandler.pending : decodeRejects(q)
       \/ \E q \in drawHandler.pending : imageLoads(q)
       \/ \E q \in drawHandler.pending : frameLoads(q)
       \/ \E q \in drawHandler.pending : timeoutFires(q)

SpecGif == InitGif /\ [][NextGif]_vars

-----------------------------------------------------------------------------
(* The PerformanceMonitor: recording started and stopped, passes recorded,  *)
(* the entries exported                                                    *)

\* milliseconds between two calls
Delays == {400, 1000}

\* render times in milliseconds
RenderTimes == {0, 3}

\* bytes of heap: none reported, two megabytes
HeapSizes == {Null, Some(2097152)}

\* performance.memory: absent, or with its sizes
Memories ==
    {Null} \cup {Some([totalJSHeapSize |-> size, usedJSHeapSize |-> size]) :
                    size \in HeapSizes}

\* the monitor as constructed, the component mounted with two shapes
InitPerf ==
    /\ heap = InitObjects
    /\ canvasData = <<1, 2>>
    /\ shapeLayers = sortByLayer(heap, canvasData)
    /\ needsRedraw = Mount(heap, shapeLayers).flags
    /\ drawHandler = Mount(heap, shapeLayers).draw
    /\ performanceMonitor = NewMonitor
    /\ now = 0
    /\ selectedObjects = Null
    /\ hoveringObject = Null
    /\ currentHoveringSelectHandle = NoHandle
    /\ rescalingObject = Null
    /\ movingObject = Null
    /\ lastMousePosition = Null
    /\ events = 0
    /\ last = Event("init", 0, 0, FALSE, 0, 0, NoHandle, <<>>)

NextPerf ==
    /\ events < MaxPerfEvents
    /\ \/ \E dt \in Delays : showMetrics(dt)
       \/ hideMetrics
       \/ \E dt \in Delays, renderTime \in RenderTimes, memory \in Memories :
            recordPass(dt, renderTime, Len(canvasData), memory)
       \/ exportPerformanceData

SpecPerf == InitPerf /\ [][NextPerf]_vars

-----------------------------------------------------------------------------
(* The PerformanceMonitor with its buffer almost full, full, and rolling   *)

\* milliseconds between two passes recorded before the first state
BufferDelay == 400

\* the monitor M after the calls of recordMetrics number a to b, one every
\* BufferDelay milliseconds: the first half of the calls, then the second
RECURSIVE recordedFrom(_, _, _)
recordedFrom(M, a, b) ==
    IF a > b
    THEN M
    ELSE IF a = b
         THEN recordMetrics(M, BufferDelay * a, 0, 2, Null)
         ELSE CHOOSE R \in {recordedFrom(half, (a + b) \div 2 + 1, b) :
                              half \in {recordedFrom(M, a, (a + b) \div 2)}} :
                        TRUE

\* the monitor after startRecording() at time 0 and n calls of recordMetrics
recorded(n) == recordedFrom(startRecording(NewMonitor, 0), 1, n)

\* the component mounted with two shapes, the monitor recording with one
\* entry less than maxEntries, or with maxEntries entries
InitBuffer ==
    \E n \in {maxEntries - 1, maxEntries} :
        /\ heap = InitObjects
        /\ canvasData = <<1, 2>>
        /\ shapeLayers = sortByLayer(heap, canvasData)
        /\ needsRedraw = Mount(heap, shapeLayers).flags
        /\ drawHandler = Mount(heap, shapeLayers).draw
        /\ performanceMonitor = recorded(n)
        /\ now = BufferDelay * n
        /\ selectedObjects = Null
        /\ hoveringObject = Null
        /\ currentHoveringSelectHandle = NoHandle
        /\ rescalingObject = Null
        /\ movingObject = Null
        /\ lastMousePosition = Null
        /\ events = 0
        /\ last = Event("init", 0, 0, FALSE, 0, 0, NoHandle, <<>>)

NextBuffer ==
    /\ events < MaxBufferEvents
    /\ \/ \E dt \in Delays : showMetrics(dt)
       \/ hideMetrics
       \/ \E dt \in Delays, renderTime \in RenderTimes :
            recordPass(dt, renderTime, Len(canvasData), Null)

SpecBuffer == InitBuffer /\ [][NextBuffer]_vars

-----------------------------------------------------------------------------
(* Vocabulary of the properties *)

\* the handle across the vertical axis (left <-> right) and across the
\* horizontal axis (top <-> bottom)
MirrorX(handle) ==
    CASE handle = "TL" -> "TR" [] handle = "TR" -> "TL"
      [] handle = "BL" -> "BR" [] handle = "BR" -> "BL"

MirrorY(handle) ==
    CASE handle = "TL" -> "BL" [] handle = "BL" -> "TL"
      [] handle = "TR" -> "BR" [] handle = "BR" -> "TR"

IsLeft(handle) == handle \in {"TL", "BL"}

IsTop(handle) == handle \in {"TL", "TR"}

\* width and height right after the delta, before any normalisation
PostWidth(s, handle, dx) ==
    IF IsLeft(handle) THEN s.width - dx ELSE s.width + dx

PostHeight(s, handle, dy) ==
    IF IsTop(handle) THEN s.height - dy ELSE s.height + dy

\* the corner of s opposite to the handle
OppositeCorner(s, handle) ==
    CASE handle = "BR" -> <<s.x, s.y>>
      [] handle = "TL" -> <<s.x + s.width, s.y + s.height>>
      [] handle = "TR" -> <<s.x, s.y + s.height>>
      [] handle = "BL" -> <<s.x + s.width, s.y>>

\* this step is a pointer-move that runs the body of scaleObjects
ResizeFrame ==
    /\ events' = events + 1
    /\ last'.op = "mousemove"
    /\ lastMousePosition # Null
    /\ rescalingObject # Null
    /\ currentHoveringSelectHandle # NoHandle

\* this step is a pointer-move that runs moveObjects over movingObject
MoveFrame ==
    /\ events' = events + 1
    /\ last'.op = "mousemove"
    /\ lastMousePosition # Null
    /\ rescalingObject = Null
    /\ movingObject # Null

\* exactly one shape is being resized
SingleResize == rescalingObject # Null /\ Len(rescalingObject[1]) = 1

\* the shape of CanvasData with the given id, as a set of field records
CanvasShapes(h, cd, id) == {h[r] : r \in {q \in Range(cd) : h[q].id = id}}

-----------------------------------------------------------------------------
(* C1: in every reachable state every shape of CanvasData has width >= 0   *)
(* and height >= 0, whatever clicks, pointer-downs, pointer-moves and      *)
(* pointer-ups came before.                                                *)
C1_NonNegativeSize ==
    \A r \in Range(canvasData) : heap[r].width >= 0 /\ heap[r].height >= 0

\* a resize frame has just inverted an axis of a shape
C1_Witness ==
    /\ last.op = "mousemove"
    /\ rescalingObject # Null
    /\ last.reported # <<>>
    /\ last.handle # NoHandle
    /\ currentHoveringSelectHandle # last.handle
    /\ last.dx < -20

(* C2, as stated: resizing a shape with handle BR by dx = -(width+1),      *)
(* dy = 0 makes the handle BL, the width 1 and x one less.                 *)
C2_FlipGivesWidthOne ==
    [][(ResizeFrame /\ SingleResize /\ currentHoveringSelectHandle = "BR")
        => \A r \in RefsOf(rescalingObject) :
             (last'.dx = -(heap[r].width + 1) /\ last'.dy = 0)
               => /\ currentHoveringSelectHandle' = "BL"
                  /\ heap'[r].width = 1
                  /\ heap'[r].x = heap[r].x - 1]_vars

(* C2, amended: resizing a single shape of height > 0 with handle BR by    *)
(* dx = -(width+1), dy = 0 makes the handle BL, the width MIN_SIZE (the    *)
(* inverted width 1 is raised to the floor) and x one less.                *)
C2_FlipGivesMinSize ==
    [][(ResizeFrame /\ SingleResize /\ currentHoveringSelectHandle = "BR")
        => \A r \in RefsOf(rescalingObject) :
             (last'.dx = -(heap[r].width + 1) /\ last'.dy = 0
                /\ heap[r].height > 0)
               => /\ currentHoveringSelectHandle' = "BL"
                  /\ heap'[r].width = MIN_SIZE
                  /\ heap'[r].x = heap[r].x - 1
                  /\ heap'[r].y = heap[r].y]_vars

\* the frame BR, width 8, dx = -9, dy = 0 has run on the shape at x = 20
C2_Witness ==
    /\ events = 1
    /\ last.op = "mousemove"
    /\ last.handle = "BR"
    /\ last.dx = -9
    /\ last.dy = 0
    /\ currentHoveringSelectHandle = "BL"
    /\ heap[1].width = MIN_SIZE
    /\ heap[1].x = 19

(* C3, on the frames in which the floor plays no part (both post-delta     *)
(* dimensions are at least MIN_SIZE in absolute value): on each axis the   *)
(* handle is mirrored exactly when the post-delta dimension is negative,   *)
(* and then the dimension becomes its absolute value and the shape covers  *)
(* the same span.                                                          *)
C3_MirrorPerAxis ==
    [][(ResizeFrame /\ SingleResize)
        => \A r \in RefsOf(rescalingObject) :
             LET hd == currentHoveringSelectHandle
                 s == heap[r]
                 t == heap'[r]
                 w0 == PostWidth(s, hd, last'.dx)
                 h0 == PostHeight(s, hd, last'.dy)
                 x0 == IF IsLeft(hd) THEN s.x + last'.dx ELSE s.x
                 y0 == IF IsTop(hd) THEN s.y + last'.dy ELSE s.y
             IN  (Abs(w0) >= MIN_SIZE /\ Abs(h0) >= MIN_SIZE)
                   => /\ (w0 < 0) <=>
                           (IsLeft(currentHoveringSelectHandle') # IsLeft(hd))
                      /\ (h0 < 0) <=>
                           (IsTop(currentHoveringSelectHandle') # IsTop(hd))
                      /\ t.width = Abs(w0)
                      /\ t.height = Abs(h0)
                      /\ t.x = Min2(x0, x0 + w0)
                      /\ t.y = Min2(y0, y0 + h0)]_vars

(* C4: a resize frame that inverts both width and height leaves the        *)
(* diagonally opposite handle active.                                      *)
C4_BothAxesGiveDiagonal ==
    [][(ResizeFrame /\ SingleResize)
        => \A r \in RefsOf(rescalingObject) :
             LET hd == currentHoveringSelectHandle
             IN  (PostWidth(heap[r], hd, last'.dx) < 0
                    /\ PostHeight(heap[r], hd, last'.dy) < 0)
                   => currentHoveringSelectHandle' = MirrorX(MirrorY(hd))]_vars

(* C5, as stated: a resize frame that inverts neither axis applies exactly *)
(* the per-handle deltas and keeps the handle.                             *)
C5_ExactDeltas ==
    [][(ResizeFrame /\ SingleResize)
        => \A r \in RefsOf(rescalingObject) :
             LET hd == currentHoveringSelectHandle
                 s == heap[r]
                 w0 == PostWidth(s, hd, last'.dx)
                 h0 == PostHeight(s, hd, last'.dy)
             IN  (w0 >= 0 /\ h0 >= 0)
                   => /\ currentHoveringSelectHandle' = hd
                      /\ heap'[r].width = w0
                      /\ heap'[r].height = h0
                      /\ heap'[r].x = IF IsLeft(hd) THEN s.x + last'.dx ELSE s.x
                      /\ heap'[r].y = IF IsTop(hd) THEN s.y + last'.dy ELSE s.y]_vars

(* C5, amended: a resize frame of a single shape whose post-delta width    *)
(* and height are both positive keeps the handle, moves x and y by the     *)
(* per-handle deltas (TL: x+=dx, y+=dy; TR: y+=dy; BL: x+=dx; BR: none)    *)
(* and sets width and height to the per-handle results raised to MIN_SIZE  *)
(* when they are below it.                                                 *)
C5_DeltasWithFloor ==
    [][(ResizeFrame /\ SingleResize)
        => \A r \in RefsOf(rescalingObject) :
             LET hd == currentHoveringSelectHandle
                 s == heap[r]
                 w0 == PostWidth(s, hd, last'.dx)
                 h0 == PostHeight(s, hd, last'.dy)
             IN  (w0 > 0 /\ h0 > 0)
                   => /\ currentHoveringSelectHandle' = hd
                      /\ heap'[r].width = Max2(w0, MIN_SIZE)
                      /\ heap'[r].height = Max2(h0, MIN_SIZE)
                      /\ heap'[r].x = IF IsLeft(hd) THEN s.x + last'.dx ELSE s.x
                      /\ heap'[r].y = IF IsTop(hd) THEN s.y + last'.dy ELSE s.y
                      /\ heap'[r].id = s.id
                      /\ heap'[r].layer = s.layer]_vars

\* the frame TL, 8 x 8 at (20, 20), delta (4, -13) has run: the width 4 was
\* raised to the floor, the height grew to 21, x and y followed the pointer
C5_Witness ==
    /\ events = 1
    /\ last.op = "mousemove"
    /\ last.handle = "TL"
    /\ last.dx = 4
    /\ last.dy = -13
    /\ currentHoveringSelectHandle = "TL"
    /\ heap[1] = Shape(1, "Rectangle", 24, 7, MIN_SIZE, 21, 0)

(* C6: after every resize frame each manipulated shape, and its entry in   *)
(* CanvasData, has width >= MIN_SIZE and height >= MIN_SIZE.               *)
C6_MinimumSize ==
    [][ResizeFrame
        => \A r \in RefsOf(rescalingObject) :
             /\ heap'[r].width >= MIN_SIZE
             /\ heap'[r].height >= MIN_SIZE
             /\ \A c \in CanvasShapes(heap', canvasData', heap[r].id) :
                  c.width >= MIN_SIZE /\ c.height >= MIN_SIZE]_vars

\* a frame has run whose inverted width (1) and shrunk height (4) were both
\* raised to the floor
C6_Witness ==
    /\ last.op = "mousemove"
    /\ last.handle = "BR"
    /\ last.dx = -9
    /\ last.dy = -4
    /\ last.reported = <<1>>
    /\ heap[1].width = MIN_SIZE
    /\ heap[1].height = MIN_SIZE
    /\ heap[canvasData[1]].width = MIN_SIZE

(* C7: in every resize frame the corner opposite the active handle stays   *)
(* where it was: the corner opposite the handle before the frame has the   *)
(* coordinates of the corner opposite the handle after the frame.          *)
C7_OppositeCornerAnchored ==
    [][(ResizeFrame /\ SingleResize)
        => \A r \in RefsOf(rescalingObject) :
             OppositeCorner(heap'[r], currentHoveringSelectHandle')
               = OppositeCorner(heap[r], currentHoveringSelectHandle)]_vars

(* C8: a move frame with delta (dx, dy) over the manipulated set S adds dx *)
(* to x and dy to y of each shape object in S and changes no other field   *)
(* of it, changes no field of any other shape object, hands each object    *)
(* of S to onShapeChange exactly once, and leaves CanvasData with the same *)
(* ids in the same order, the entries of S equal to the moved objects.     *)
C8_MoveFrame ==
    [][MoveFrame
        => LET S == movingObject[1]
           IN  /\ \A r \in Range(S) :
                    heap'[r] = [heap[r] EXCEPT !.x = @ + last'.dx,
                                               !.y = @ + last'.dy]
               /\ \A r \in (DOMAIN heap \cap DOMAIN heap') \ Range(S) :
                    heap'[r] = heap[r]
               /\ last'.reported = Ids(heap, S)
               /\ Ids(heap', canvasData') = Ids(heap, canvasData)
               /\ \A i \in 1..Len(canvasData) :
                    IF \E r \in Range(S) : heap[r].id = heap[canvasData[i]].id
                    THEN \E r \in Range(S) : heap'[canvasData'[i]] = heap'[r]
                    ELSE /\ canvasData'[i] = canvasData[i]
                         /\ heap'[canvasData'[i]] = heap[canvasData[i]]]_vars

\* a move frame over both shapes has run: both were reported, both moved
\* from where the page put them, by a delta with dx # dy
C8_Witness ==
    /\ last.op = "mousemove"
    /\ rescalingObject = Null
    /\ movingObject # Null
    /\ last.reported = <<1, 2>>
    /\ last.dx # last.dy
    /\ \A i \in 1..2 :
         /\ heap[canvasData[i]].x = InitObjects[i].x + last.dx
         /\ heap[canvasData[i]].y = InitObjects[i].y + last.dy
         /\ heap[canvasData[i]].width = InitObjects[i].width

(* C9: a click without the modifier key over at least one shape sets the   *)
(* selection to exactly the shape at index 0 of the hit list; a click over *)
(* empty space sets it to null, with or without the modifier key.          *)
C9_ClickSelects ==
    [][(events' = events + 1 /\ last'.op = "click")
        => LET hit == detectObjectHit(heap, canvasData, last'.x, last'.y)
           IN  /\ hit = <<>> => selectedObjects' = Null
               /\ (hit # <<>> /\ ~last'.key)
                    => selectedObjects' = Some(<<hit[1]>>)]_vars

\* a plain click where both shapes lie under the pointer has selected the
\* first of the two, after a moving had been started on some shape
C9_Witness ==
    /\ last.op = "click"
    /\ ~last.key
    /\ movingObject # Null
    /\ LET hit == detectObjectHit(heap, canvasData, last.x, last.y)
       IN  Len(hit) = 2 /\ selectedObjects = Some(<<hit[1]>>)
                        /\ movingObject # selectedObjects

(* C10: a click with the modifier key over a shape toggles that shape's id *)
(* in the selection: removed if a shape with that id is selected, added    *)
(* otherwise, every other member kept.                                     *)
C10_ShiftClickTogglesId ==
    [][(events' = events + 1 /\ last'.op = "click" /\ last'.key)
        => LET hit == detectObjectHit(heap, canvasData, last'.x, last'.y)
               before == IdSet(heap, selectedObjects)
               after == IdSet(heap', selectedObjects')
           IN  hit # <<>>
                 => LET id == heap[hit[1]].id
                    IN  /\ after = IF id \in before
                                   THEN before \ {id}
                                   ELSE before \cup {id}
                        /\ \A r \in RefsOf(selectedObjects) :
                             heap[r].id # id
                               => r \in RefsOf(selectedObjects')]_vars

\* a nullable array that holds at least one shape
NonEmpty(v) == v # Null /\ v[1] # <<>>

\* the ids of the shapes of CanvasData
CanvasIds == {heap[r].id : r \in Range(canvasData)}

\* this step handles one event of the given kind
EventStep(op) == events' = events + 1 /\ last'.op = op

(* C11: two clicks with the modifier key in a row that hit the same shape  *)
(* id leave the selection, as a set of ids, as it was before the first of  *)
(* the two, whatever the selection was.                                    *)
C11_DoubleToggle ==
    [][(EventStep("click") /\ last'.key /\ last.op = "click" /\ last.key)
        => LET hit == detectObjectHit(heap, canvasData, last'.x, last'.y)
               hitBefore == detectObjectHit(heap, canvasData, last.x, last.y)
           IN  (hit # <<>> /\ hitBefore # <<>>
                  /\ heap[hit[1]].id = heap[hitBefore[1]].id)
                 => IdSet(heap', selectedObjects') = last.before]_vars

\* two events in all: the second, a modifier-key click, removed the id the
\* first had put into the empty selection
C11_Witness ==
    /\ events = 2
    /\ last.op = "click"
    /\ last.key
    /\ last.before # {}
    /\ selectedObjects = Some(<<>>)
    /\ LET hit == detectObjectHit(heap, canvasData, last.x, last.y)
       IN  hit # <<>> /\ heap[hit[1]].id \in last.before

(* C12: in every reachable state the moving set and the resizing set are   *)
(* not both non-empty.                                                     *)
C12_OneManipulation == ~(NonEmpty(movingObject) /\ NonEmpty(rescalingObject))

C14_ManipulationUntilPointerUp ==
    [][/\ EventStep("mousemove")
          => /\ movingObject # Null => movingObject' = movingObject
             /\ rescalingObject # Null => rescalingObject' = rescalingObject
       /\ (EventStep("mouseup")
            /\ (movingObject # Null \/ rescalingObject # Null))
          => /\ selectedObjects' \in ({movingObject, rescalingObject} \ {Null})
             /\ movingObject' = Null
             /\ rescalingObject' = Null]_vars

\* a pointer-up has ended a move of shape 1 during which another shape had
\* been selected by a click: the selection is the moved shape again
C14_Witness ==
    /\ last.op = "mouseup"
    /\ last.before = {2}
    /\ IdSet(heap, selectedObjects) = {1}
    /\ movingObject = Null
    /\ rescalingObject = Null
    /\ \E r \in Range(canvasData) : heap[r].id = 1 /\ heap[r].x # InitObjects[1].x

(* C15: no selected shape and no hovered shape has an id that is absent    *)
(* from CanvasData, in any state after the reconciliation of a CanvasData  *)
(* change, a pointer-up that ends a manipulation included.                 *)
C15_NoDanglingSelection ==
    /\ IdSet(heap, selectedObjects) \subseteq CanvasIds
    /\ hoveringObject # Null => heap[hoveringObject[1]].id \in CanvasIds

\* the layers of a list of shapes are in descending order
LayersDescend(h, hit) ==
    \A i, j \in 1..Len(hit) : i < j => h[hit[i]].layer >= h[hit[j]].layer

(* C16: the list of shapes under the point of a click or a pointer-move is *)
(* ordered from the highest layer to the lowest, whatever the order of the *)
(* shapes inside CanvasData.                                               *)
C16_HitOrderedByLayer ==
    [][(EventStep("click") \/ EventStep("mousemove"))
        => LayersDescend(heap,
                         detectObjectHit(heap, canvasData,
                                         last'.x, last'.y))]_vars

\* the containment test of each kind, with the circle's centre and radius
\* doubled: centre (x + width/2, y + height/2), radius min(width, height)/2
Contains(s, x, y) ==
    IF s.type \in {"Rectangle", "Image"}
    THEN s.x <= x /\ x <= s.x + s.width /\ s.y <= y /\ y <= s.y + s.height
    ELSE LET ex == 2 * x - (2 * s.x + s.width)
             ey == 2 * y - (2 * s.y + s.height)
             d == Min2(s.width, s.height)
         IN  ex * ex + ey * ey <= d * d

(* C17: the hit list at the point of a click or a pointer-move holds a     *)
(* shape of CanvasData exactly when the point is inside the rectangle      *)
(* [x, x+width] x [y, y+height], boundaries included, for a Rectangle or   *)
(* an Image, and when its squared distance to the centre is at most        *)
(* (min(width, height)/2) squared for a Circle; a click without the        *)
(* modifier key then selects a shape exactly when some shape contains the  *)
(* point.                                                                  *)
C17_HitIffContains ==
    [][(EventStep("click") \/ EventStep("mousemove"))
        => LET hit == detectObjectHit(heap, canvasData, last'.x, last'.y)
           IN  /\ \A r \in Range(canvasData) :
                    (r \in Range(hit)) <=> Contains(heap[r], last'.x, last'.y)
               /\ (last'.op = "click" /\ ~last'.key)
                    => ((selectedObjects' # Null)
                          <=> \E r \in Range(canvasData) :
                                Contains(heap[r], last'.x, last'.y))]_vars

\* a click at the corner (10, 10) of the bounding box of the 8 x 8 circle,
\* outside the circle, has selected nothing; the click before it had
\* selected the circle
C17_Witness ==
    /\ last.op = "click"
    /\ ~last.key
    /\ last.x = 10
    /\ last.y = 10
    /\ last.before = {1}
    /\ heap[1].type = "Circle"
    /\ heap[1].width = 8
    /\ heap[1].height = 8
    /\ selectedObjects = Null

\* a shape with all its coordinates doubled
Doubled(s) ==
    [s EXCEPT !.x = 2 * s.x, !.y = 2 * s.y,
              !.width = 2 * s.width, !.height = 2 * s.height]

(* C18: every shape of CanvasData of any kind with width >= 0 and          *)
(* height >= 0 is in the hit list at its own centre (x + width/2,          *)
(* y + height/2); the centre of a shape of odd size is tested on the shape *)
(* with all coordinates doubled.                                           *)
C18_CentreHit ==
    \A r \in Range(canvasData) :
      LET s == heap[r]
          h2 == [q \in DOMAIN heap |-> Doubled(heap[q])]
      IN  (s.width >= 0 /\ s.height >= 0)
            => r \in Range(detectObjectHit(h2, canvasData,
                                           2 * s.x + s.width,
                                           2 * s.y + s.height))

\* a click at the centre of the circle of no width and no height has
\* selected it
C18_Witness ==
    /\ last.op = "click"
    /\ ~last.key
    /\ heap[1] = Shape(1, "Circle", 10, 10, 0, 0, 1)
    /\ last.x = 10
    /\ last.y = 10
    /\ selectedObjects = Some(<<1>>)

\* this step is a pointer-move that runs detectSelectionHandleHover
HoverFrame ==
    /\ EventStep("mousemove")
    /\ lastMousePosition # Null
    /\ rescalingObject = Null
    /\ movingObject = Null
    /\ ~(last'.key /\ detectObjectHit(heap, canvasData, last'.x, last'.y) # <<>>)

\* the corners of the bounding box of the selection, in the order tested
Corners(b) ==
    <<[handle |-> "TL", x |-> b.x, y |-> b.y],
      [handle |-> "TR", x |-> b.x + b.width, y |-> b.y],
      [handle |-> "BL", x |-> b.x, y |-> b.y + b.height],
      [handle |-> "BR", x |-> b.x + b.width, y |-> b.y + b.height]>>

\* the first corner whose region holds the point, or none
FirstCorner(b, In(_, _)) ==
    LET c == Corners(b)
        holds == {i \in 1..4 : In(c[i].x, c[i].y)}
    IN  IF holds = {} THEN NoHandle
        ELSE c[CHOOSE i \in holds : \A j \in holds : i <= j].handle

(* C19, as stated: a pointer-move over a non-empty selection hovers handle *)
(* h exactly when the point is within the hit circle of radius 5 centred   *)
(* on corner h of the selection's bounding box and within no hit circle of *)
(* a corner earlier in the order TL, TR, BL, BR, and hovers no handle when *)
(* no hit circle holds the point or the selection is empty.                *)
C19_HandleCircles ==
    [][HoverFrame
        => currentHoveringSelectHandle'
             = IF ~NonEmpty(selectedObjects) THEN NoHandle
               ELSE LET b == getSelectedObjectsBoundingBox(heap,
                                                           selectedObjects[1])
                        InCircle(cx, cy) ==
                          (last'.x - cx) * (last'.x - cx)
                            + (last'.y - cy) * (last'.y - cy) <= 5 * 5
                    IN  FirstCorner(b, InCircle)]_vars

(* C19, amended: a pointer-move over a non-empty selection hovers handle h *)
(* exactly when the point is within the axis-aligned hit square of side    *)
(* handleSize = 10 (boundary included) centred on corner h of the          *)
(* selection's bounding box and within no hit square of a corner earlier   *)
(* in the order TL, TR, BL, BR, and hovers no handle when no hit square    *)
(* holds the point or the selection is empty.                              *)
C19_HandleSquares ==
    [][HoverFrame
        => currentHoveringSelectHandle'
             = IF ~NonEmpty(selectedObjects) THEN NoHandle
               ELSE LET b == getSelectedObjectsBoundingBox(heap,
                                                           selectedObjects[1])
                        InSquare(cx, cy) ==
                          /\ Abs(last'.x - cx) <= 5
                          /\ Abs(last'.y - cy) <= 5
                    IN  FirstCorner(b, InSquare)]_vars

\* a pointer-move to (3, 3) has hovered handle TL of the selected 8 x 8
\* shape, whose corner (7, 7) is further than 5 away from the pointer
C19_Witness ==
    /\ last.op = "mousemove"
    /\ last.x = 3
    /\ last.y = 3
    /\ selectedObjects = Some(<<1>>)
    /\ heap[1].width = 8
    /\ heap[1].height = 8
    /\ currentHoveringSelectHandle = "TL"

\* (left, top, right, bottom) is the box the claim gives for the targets
IsPaddedBox(h, targets, left, top, right, bottom) ==
    /\ \A r \in Range(targets) :
         /\ left <= h[r].x - PADDING
         /\ top <= h[r].y - PADDING
         /\ right >= h[r].x + h[r].width + PADDING
         /\ bottom >= h[r].y + h[r].height + PADDING
    /\ \E r \in Range(targets) : left = h[r].x - PADDING
    /\ \E r \in Range(targets) : top = h[r].y - PADDING
    /\ \E r \in Range(targets) : right = h[r].x + h[r].width + PADDING
    /\ \E r \in Range(targets) : bottom = h[r].y + h[r].height + PADDING

(* C20: the bounding box of a non-empty selection, as the controller and   *)
(* as the renderer compute it, is {min of x-3, min of y-3, max of          *)
(* x+width+3, max of y+height+3} over its shapes, and for a single shape   *)
(* of any kind {x-3, y-3, x+width+3, y+height+3}.                          *)
C20_BoundingBox ==
    NonEmpty(selectedObjects)
      => LET t == selectedObjects[1]
             b == getSelectedObjectsBoundingBox(heap, t)
             c == calculateBoundingBox(heap, t)
         IN  /\ IsPaddedBox(heap, t, b.x, b.y, b.x + b.width, b.y + b.height)
             /\ IsPaddedBox(heap, t, c.topX, c.topY, c.bottomX, c.bottomY)
             /\ c.width = c.bottomX - c.topX
             /\ c.height = c.bottomY - c.topY
             /\ Len(t) = 1
                  => LET s == heap[t[1]]
                     IN  /\ <<b.x, b.y, b.x + b.width, b.y + b.height>>
                              = <<s.x - 3, s.y - 3,
                                  s.x + s.width + 3, s.y + s.height + 3>>
                         /\ <<c.topX, c.topY, c.bottomX, c.bottomY>>
                              = <<s.x - 3, s.y - 3,
                                  s.x + s.width + 3, s.y + s.height + 3>>

\* both shapes are selected and a pointer-move to (24, 7) has hovered the
\* handle TR of their common box, right of the first shape's own box
C20_Witness ==
    /\ last.op = "mousemove"
    /\ last.x = 24
    /\ last.y = 7
    /\ IdSet(heap, selectedObjects) = {1, 2}
    /\ heap[1].width = 5
    /\ currentHoveringSelectHandle = "TR"

-----------------------------------------------------------------------------
(* Vocabulary of the layer properties *)

\* this step ran the reconcile effect: canvasData.objects became a new array
ReconcileStep ==
    /\ events' = events + 1
    /\ \/ last'.op \in {"add", "clear"}
       \/ last'.reported # <<>>

\* the ids of the shapes of a sequence of references
IdsIn(h, refs) == {h[r].id : r \in Range(refs)}

\* the positions of the layers that held id before this step
OldLayers(id) == {k \in 1..Len(shapeLayers) : heap[shapeLayers[k]].id = id}

\* the object a layer holds as it is when the reconcile effect reads it:
\* after the in-place changes of the handler
StoredObject(r) == IF r \in DOMAIN heap' THEN heap'[r] ELSE heap[r]

\* the commands of a painted layer
Issues(p, command) == command \in Range(p.commands)

-----------------------------------------------------------------------------
(* C21 as stated: a reconcile gives one layer per shape of the new         *)
(* CanvasData and none for an absent id; the layer of a new id is dirty;   *)
(* the layer of an id already present is dirty if and only if some field   *)
(* of the new shape differs from what the layer held before the event.     *)
C21_DirtyIffDiffersFromSnapshot ==
    [][ReconcileStep =>
        /\ Len(shapeLayers') = Len(canvasData')
        /\ IdsIn(heap', shapeLayers') = IdsIn(heap', canvasData')
        /\ Len(last'.dirty) = Len(shapeLayers')
        /\ \A i \in 1..Len(shapeLayers') :
              LET shape == heap'[shapeLayers'[i]]
                  old == OldLayers(shape.id)
              IN  last'.dirty[i] <=>
                    \/ old = {}
                    \/ heap[shapeLayers[SetMin(old)]] # shape]_vars

(* C21, amended: the same, but the layer of an id already present is dirty *)
(* if and only if some field of the new shape differs from the shape       *)
(* object the layer holds as that object is when the reconcile runs, that  *)
(* is after the frame changed it in place.                                 *)
C21_DirtyIffDiffersFromStoredObject ==
    [][ReconcileStep =>
        /\ Len(shapeLayers') = Len(canvasData')
        /\ IdsIn(heap', shapeLayers') = IdsIn(heap', canvasData')
        /\ Len(last'.dirty) = Len(shapeLayers')
        /\ \A i \in 1..Len(shapeLayers') :
              LET shape == heap'[shapeLayers'[i]]
                  old == OldLayers(shape.id)
              IN  last'.dirty[i] <=>
                    \/ old = {}
                    \/ StoredObject(shapeLayers[SetMin(old)]) # shape]_vars

\* a move frame has reconciled three layers: the layer of the moved shape is
\* dirty, the layer of an untouched shape is not
C21_Witness ==
    /\ last.op = "mousemove"
    /\ last.reported # <<>>
    /\ Len(shapeLayers) = 3
    /\ \E i, j \in 1..Len(last.dirty) :
          /\ last.dirty[i]
          /\ heap[shapeLayers[i]].id \in Range(last.reported)
          /\ ~last.dirty[j]

-----------------------------------------------------------------------------
(* C22: when an event leaves CanvasData as it is and no move or resize is  *)
(* active, and the render effect runs again, no layer is dirty when that   *)
(* pass starts and the pass paints no shape layer.                         *)
C22_SecondPassPaintsNothing ==
    [][(/\ events' = events + 1
        /\ ~ReconcileStep
        /\ canvasData' = canvasData
        /\ movingObject' = Null
        /\ rescalingObject' = Null
        /\ last'.passes > 0)
       => /\ \A i \in 1..Len(needsRedraw) : ~needsRedraw[i]
          /\ last'.painted = <<>>]_vars

\* a pointer-up has ended a move that painted frames, and the pass after it
\* painted nothing
C22_Witness ==
    /\ last.op = "mouseup"
    /\ last.passes = 1
    /\ last.painted = <<>>
    /\ last.before # {}
    /\ \E r \in Range(canvasData) : heap[r].x # 10 /\ heap[r].id = 1

-----------------------------------------------------------------------------
(* C27: when onShapeChange throws, a move frame still moves every shape of *)
(* the moving set by the delta, and a resize frame still gives every shape *)
(* of the resized set the geometry the frame gives it when the callback    *)
(* returns.                                                                *)
C27_SinkFailureStillUpdatesAll ==
    [][(/\ events' = events + 1
        /\ last'.op = "mousemove"
        /\ lastMousePosition # Null)
       => IF rescalingObject # Null
          THEN \A r \in Range(rescalingObject[1]) :
                  heap'[r] = scaleObjects(heap, rescalingObject,
                                          currentHoveringSelectHandle,
                                          last'.dx, last'.dy).heap[r]
          ELSE movingObject # Null =>
                 \A r \in Range(movingObject[1]) :
                    heap'[r] = moveShape(heap[r], last'.dx, last'.dy)]_vars

-----------------------------------------------------------------------------
(* C28: a frame that hands shapes to onShapeChange leaves CanvasData with  *)
(* the same number of shapes and the same id at every position; a shape    *)
(* whose id was not handed over keeps its fields; a shape whose id was     *)
(* handed over has the fields of a shape handed over with that id; an id   *)
(* handed over that CanvasData does not hold is not added.                 *)
C28_MergeById ==
    [][(events' = events + 1 /\ last'.reported # <<>>) =>
        LET S == IF rescalingObject # Null THEN rescalingObject[1]
                 ELSE movingObject[1]
        IN  /\ Len(canvasData') = Len(canvasData)
            /\ \A i \in 1..Len(canvasData) :
                  LET old == heap[canvasData[i]]
                      new == heap'[canvasData'[i]]
                  IN  /\ new.id = old.id
                      /\ old.id \notin Range(last'.reported) => new = old
                      /\ old.id \in Range(last'.reported) =>
                           \E r \in Range(S) :
                              heap'[r].id = old.id /\ new = heap'[r]]_vars

\* a move frame has handed over shape 1, and CanvasData holds it, moved, next
\* to the untouched shape 2
C28_Witness ==
    /\ last.op = "mousemove"
    /\ last.reported = <<1>>
    /\ Len(canvasData) = 2
    /\ \E r \in Range(canvasData) : heap[r].id = 1 /\ heap[r].x # 10
    /\ \E r \in Range(canvasData) :
          heap[r] = Shape(2, "Circle", 20, 20, 20, 20, 1)

-----------------------------------------------------------------------------
(* C30: every Rectangle and every Circle a render pass paints gets a fill  *)
(* command if and only if filled is true, and a stroke command if and only *)
(* if borderWidth > 0.                                                     *)
C30_FillIffFilledStrokeIffBorder ==
    \A k \in 1..Len(last.painted) :
        LET p == last.painted[k]
        IN  p.shape.type \in {"Rectangle", "Circle"} =>
              /\ Issues(p, "fill") <=> p.shape.filled
              /\ Issues(p, "stroke") <=> p.shape.borderWidth > 0

-----------------------------------------------------------------------------
(* Vocabulary of the image properties *)

\* what is outstanding of the given kinds for the shape id
Outstanding(kinds, id) ==
    {q \in drawHandler.pending : q.kind \in kinds /\ q.id = id}

\* the ids drawHandler knows
DrawnIds ==
    drawHandler.imageCache \cup DOMAIN drawHandler.gifFrameCashe
      \cup {q.id : q \in drawHandler.pending}

-----------------------------------------------------------------------------
(* C23: in every reachable state at most one timeout that runs animateGif  *)
(* is outstanding for a shape id, whatever redraws, decodes that overlap   *)
(* and timeouts came before.                                               *)
C23_OneTimeoutPerShape ==
    \A id \in DrawnIds : Cardinality(Outstanding({"timeout"}, id)) <= 1

\* a decode has resolved after the animation had already advanced: it ran
\* alongside another decode, and it left one timeout
C23_Witness ==
    /\ last.op = "decoded"
    /\ 1 \in DOMAIN drawHandler.gifFrameNumberCashe
    /\ drawHandler.gifFrameNumberCashe[1] > 0
    /\ Cardinality(Outstanding({"timeout"}, 1)) = 1

-----------------------------------------------------------------------------
(* C24: in every reachable state a timeout that runs animateGif is         *)
(* outstanding only for shapes CanvasData holds, so that the frame index   *)
(* of a removed shape never changes again.                                 *)
C24_RemovedShapeHasNoTimeout ==
    \A id \in DrawnIds :
        id \notin IdsIn(heap, canvasData) => Outstanding({"timeout"}, id) = {}

-----------------------------------------------------------------------------
(* C25: a timeout that fires for a shape with n decoded frames changes the *)
(* stored frame index of the shape from i to (i + 1) mod n, and after      *)
(* every step every stored frame index is in 0..n-1.                       *)
C25_IndexAdvancesModulo ==
    [][/\ (events' = events + 1 /\ last'.op = "timeout") =>
            LET n == drawHandler.gifFrameCashe[last'.id]
                i == drawHandler.gifFrameNumberCashe[last'.id]
            IN  drawHandler'.gifFrameNumberCashe[last'.id] = (i + 1) % n
       /\ \A id \in DOMAIN drawHandler'.gifFrameNumberCashe :
            /\ id \in DOMAIN drawHandler'.gifFrameCashe
            /\ drawHandler'.gifFrameNumberCashe[id]
                 \in 0..(drawHandler'.gifFrameCashe[id] - 1)]_vars

\* the index of the three-frame GIF has gone round to 0, with a redraw of
\* the shape among the events
C25_Witness ==
    /\ last.op = "timeout"
    /\ 1 \in DOMAIN drawHandler.gifFrameCashe
    /\ drawHandler.gifFrameCashe[1] = 3
    /\ drawHandler.gifFrameNumberCashe[1] = 0
    /\ movingObject # Null

-----------------------------------------------------------------------------
(* C26: in every reachable state at most one decode of a GIF or load of a  *)
(* static image is outstanding for a shape id.                             *)
C26_OneDecodePerShape ==
    \A id \in DrawnIds : Cardinality(Outstanding({"decode", "load"}, id)) <= 1

-----------------------------------------------------------------------------
(* Vocabulary of the export properties *)

\* the fields of a row
FpsOf(line) == line[4]

TotalHeapOf(line) == line[5]

UsedHeapOf(line) == line[6]

\* the sample has a heap size of the given name
HasHeap(entry, size) ==
    entry.memoryUsage # Null /\ entry.memoryUsage[1][size] # Null

-----------------------------------------------------------------------------
(* C29: after an export the text is the header line followed by one row    *)
(* per recorded sample, in recording order, also when there is no sample;  *)
(* a row shows N/A for the FPS or for a heap size exactly when the sample  *)
(* has no such field.                                                      *)
C29_HeaderAndRows ==
    last.op = "export" =>
        LET entries == performanceMonitor.entries
        IN  /\ Len(last.csv) = 1 + Len(entries)
            /\ last.csv[1] = headers
            /\ \A i \in 1..Len(entries) :
                  LET line == last.csv[i + 1]
                  IN  /\ line[1] = Number("toISOString", entries[i].timestamp)
                      /\ line[3] = Number("number", entries[i].objectCount)
                      /\ FpsOf(line) = Text("N/A") <=> entries[i].fps = Null
                      /\ TotalHeapOf(line) = Text("N/A")
                           <=> ~HasHeap(entries[i], "totalJSHeapSize")
                      /\ UsedHeapOf(line) = Text("N/A")
                           <=> ~HasHeap(entries[i], "usedJSHeapSize")

-----------------------------------------------------------------------------
(* C31: in every render pass that runs while a move or a resize is active, *)
(* the layer of every shape whose id is in the moved or resized set is     *)
(* drawn, also when the reconcile before the pass did not mark it dirty.   *)
C31_ManipulatedLayersRepainted ==
    \A k \in 1..Len(last.log) :
        LET pass == last.log[k]
        IN  \A i \in 1..Len(pass.ids) :
               pass.ids[i] \in pass.manipulated =>
                 pass.ids[i] \in Range(pass.painted)

\* the first frame of a move: the shape was changed in place, the reconcile
\* left its layer clean, and the pass after it drew the layer
C31_Witness ==
    /\ last.op = "mousemove"
    /\ last.reported = <<1>>
    /\ last.dirty # <<>>
    /\ \A i \in 1..Len(last.dirty) : ~last.dirty[i]
    /\ \E k \in 1..Len(last.log) : 1 \in Range(last.log[k].painted)

-----------------------------------------------------------------------------
-----------------------------------------------------------------------------
(* C33: the bitmap kept in gifFrameImgCashe under a shape id and a frame   *)
(* index k is the bitmap of frame k of that shape, whatever the order of   *)
(* the bitmap loads and the frame advances.                                *)
C33_FrameBitmapUnderItsIndex ==
    \A key \in DOMAIN drawHandler.gifFrameImgCashe :
        drawHandler.gifFrameImgCashe[key] = key[2]

-----------------------------------------------------------------------------
(* C35: a render pass draws the hover outline only when no selected shape  *)
(* has the id of the hovered shape, also when the selection holds objects  *)
(* that handleActiveShapeChange has replaced in CanvasData.                *)
C35_NoHoverOutlineOnSelectedId ==
    \A k \in 1..Len(last.log) :
        LET overlay == last.log[k].overlay
        IN  overlay.hover # Null
              => overlay.hover[1] \notin Range(overlay.selection)

-----------------------------------------------------------------------------
(* C36: the layers hold the shapes of CanvasData, one layer for each id    *)
(* and no other, in ascending order of the layer value.                    *)
C36_LayersMatchCanvasData ==
    /\ Len(shapeLayers) = Len(canvasData)
    /\ IdsIn(heap, shapeLayers) = CanvasIds
    /\ \A i, j \in 1..Len(shapeLayers) :
          /\ i # j => heap[shapeLayers[i]].id # heap[shapeLayers[j]].id
          /\ i < j => heap[shapeLayers[i]].layer <= heap[shapeLayers[j]].layer

\* shapes were added, and the layers are in another order than CanvasData
C36_Witness ==
    /\ last.op = "add"
    /\ Len(shapeLayers) >= 4
    /\ shapeLayers # canvasData
    /\ \E i \in 1..Len(canvasData) - 1 :
          heap[canvasData[i]].layer > heap[canvasData[i + 1]].layer

-----------------------------------------------------------------------------
\* x, y, width and height of a shape
Geometry(s) == <<s.x, s.y, s.width, s.height>>

(* C38: each shape object of selectedObjects, movingObject and             *)
(* rescalingObject has the x, y, width and height of the shape of          *)
(* CanvasData with its id, in every state.                                 *)
C38_HeldObjectsAgreeWithCanvasData ==
    \A r \in RefsOf(selectedObjects) \cup RefsOf(movingObject)
                \cup RefsOf(rescalingObject) :
        \A q \in Range(canvasData) :
            heap[q].id = heap[r].id => Geometry(heap[q]) = Geometry(heap[r])

\* a resize frame has changed the width of the rectangle through an object
\* that CanvasData no longer holds, and CanvasData holds a shape with its id
C38_Witness ==
    /\ last.op = "mousemove"
    /\ last.reported # <<>>
    /\ \E r \in RefsOf(rescalingObject) :
          /\ r \notin Range(canvasData)
          /\ heap[r].width # 20
          /\ heap[r].id \in CanvasIds

-----------------------------------------------------------------------------
(* C34: a pointer-down, a pointer-up and a click with the modifier key, at *)
(* one point over a shape that is not in the selection while the selection *)
(* is not empty, end with the selection holding the ids it held before     *)
(* and the id of that shape: with two shapes on the canvas, both ids.      *)
C34_ModifierClickAddsShape ==
    [][(last.op = "mouseup" /\ EventStep("click") /\ last'.key)
        => IdSet(heap', selectedObjects') = {1, 2}]_vars

-----------------------------------------------------------------------------
\* the resize frame of this step inverts s on the x axis, on the y axis
InvertsX(s) == PostWidth(s, currentHoveringSelectHandle, last'.dx) <= 0

InvertsY(s) == PostHeight(s, currentHoveringSelectHandle, last'.dy) <= 0

(* C39: after a resize frame over two or more shapes the handle has        *)
(* changed sides on an axis exactly when each of the shapes was inverted   *)
(* on that axis, so that it names the corner that followed the pointer for *)
(* every one of them.                                                      *)
C39_HandleFitsEveryShape ==
    [][(ResizeFrame /\ Len(rescalingObject[1]) >= 2)
        => \A r \in Range(rescalingObject[1]) :
              /\ (IsLeft(currentHoveringSelectHandle')
                     # IsLeft(currentHoveringSelectHandle))
                    <=> InvertsX(heap[r])
              /\ (IsTop(currentHoveringSelectHandle')
                     # IsTop(currentHoveringSelectHandle))
                    <=> InvertsY(heap[r])]_vars

-----------------------------------------------------------------------------
\* this step is a resize frame that takes back the deltas of the resize
\* frame before it
ResizeFrameBack ==
    /\ ResizeFrame
    /\ last.op = "mousemove"
    /\ last.handle # NoHandle
    /\ DOMAIN last.was = Range(rescalingObject[1])
    /\ last'.dx = -last.dx
    /\ last'.dy = -last.dy

(* C40: a resize frame by (dx, dy) and then one by (-dx, -dy), with the    *)
(* handle the first frame left, give the shape the x, y, width and height  *)
(* and the handle they had before the first frame.                         *)
C40_ResizeRoundTrip ==
    [][ResizeFrameBack
        => /\ \A r \in Range(rescalingObject[1]) :
                Geometry(heap'[r]) = Geometry(last.was[r])
           /\ currentHoveringSelectHandle' = last.handle]_vars

-----------------------------------------------------------------------------
(* C37: the buffer never holds more than maxEntries entries; a call of     *)
(* recordMetrics while recording appends the new sample, after dropping    *)
(* the oldest entry when the buffer is full, and leaves the other entries  *)
(* in their order; a call while recording is stopped leaves the buffer as  *)
(* it was.                                                                 *)
C37_RollingBuffer ==
    [][LET old == performanceMonitor.entries
           new == performanceMonitor'.entries
           drop == IF Len(old) = maxEntries THEN 1 ELSE 0
       IN  /\ Len(old) <= maxEntries
           /\ Len(new) <= maxEntries
           /\ EventStep("record") =>
                 IF ~performanceMonitor.isRecording
                 THEN new = old
                 ELSE /\ Len(new) = Len(old) + 1 - drop
                      /\ new[Len(new)].timestamp = now'
                      /\ \A i \in 1..Len(old) :
                            i > drop => new[i - drop] = old[i]]_vars

\* a sample was recorded into the full buffer: the buffer is full and the
\* sample of time BufferDelay is no longer its first entry
C37_Witness ==
    /\ last.op = "record"
    /\ performanceMonitor.isRecording
    /\ Len(performanceMonitor.entries) = maxEntries
    /\ performanceMonitor.entries[1].timestamp > BufferDelay
    /\ performanceMonitor.entries[maxEntries].timestamp = now

====
